---- MODULE Spec2Model ----
(***************************************************************************)
(* Email-driven job-status pipeline of the job-search backend:             *)
(*   app/services/email_classifier.py  (EmailClassifier)                   *)
(*   app/services/job_matcher.py       (JobMatcher)                        *)
(*   app/services/email_processor.py   (EmailProcessor)                    *)
(*   app/services/gmail_service.py     (GmailService, token refresh)       *)
(*   app/models/email_models.py, app/models/job.py (tables)                *)
(*                                                                         *)
(* Conventions                                                             *)
(*   - confidence scores are integers in hundredths (0.6 is 60);           *)
(*   - a Python call that may raise is an operator returning a record      *)
(*     [exc, val]: exc = TRUE stands for "an exception propagated";        *)
(*   - None and the empty string are both the empty sequence <<>> (every   *)
(*     test the code makes on them is a truthiness test);                  *)
(*   - time stamps are integers counting half days.                        *)
(***************************************************************************)
EXTENDS Integers, Sequences, FiniteSets, TLC

(***************************************************************************)
(* Results of calls that may raise                                         *)
(***************************************************************************)
Ret(v) == [exc |-> FALSE, val |-> v]

Raised == [exc |-> TRUE, val |-> "exception"]

(***************************************************************************)
(* EmailClassifier                                                         *)
(***************************************************************************)
\* The taxonomy of the classification prompt.
EmailTypes ==
  {"application_confirmation", "application_rejection", "interview_invitation",
   "offer_letter", "status_update", "not_job_related"}

\* confidence_score of a reply that carries none: the string 'unknown', which is
\* not a number (any comparison with a float raises TypeError).
NotANumber == -1

\* The record returned when classification fails.
FallbackClassification ==
  [email_type |-> "unknown", confidence_score |-> 0,
   company_name |-> <<>>, job_title |-> <<>>]

\* _call_openai: the API call either yields the text of the reply or raises
\* (the except clause logs and re-raises).
call_openai(llm) ==
  IF llm.kind = "api_error" THEN Raised ELSE Ret(llm)

\* _parse_classification_response: json.loads, then the missing required
\* fields are filled in ('unknown', or None for company_name and job_title).
\* Only json.JSONDecodeError is caught here; a reply that is valid JSON but
\* not an object makes the field assignment raise TypeError.
parse_classification_response(response) ==
  CASE response.kind = "malformed" -> Ret(FallbackClassification)
    [] response.kind = "non_object" -> Raised
    [] OTHER ->
         Ret([email_type |-> IF "email_type" \in response.fields
                             THEN response.email_type ELSE "unknown",
              confidence_score |-> IF "confidence_score" \in response.fields
                                   THEN response.confidence_score ELSE NotANumber,
              company_name |-> IF "company_name" \in response.fields
                               THEN response.company_name ELSE <<>>,
              job_title |-> IF "job_title" \in response.fields
                            THEN response.job_title ELSE <<>>])

\* classify_email without its except clause (a plausible slip).
classify_email_uncaught(llm) ==
  LET response == call_openai(llm)
  IN  IF response.exc THEN Raised
      ELSE parse_classification_response(response.val)

\* classify_email: call the API, parse; any exception gives the fallback record.
classify_email(llm) ==
  LET response == call_openai(llm)
      parsed == IF response.exc THEN Raised
                ELSE parse_classification_response(response.val)
  IN  IF parsed.exc THEN Ret(FallbackClassification) ELSE parsed

\* is_job_related without its list of types (a plausible slip): every type of
\* the taxonomy counts as job related
job_related_types_all == EmailTypes

job_related_types ==
  {"application_confirmation", "application_rejection", "interview_invitation",
   "offer_letter", "status_update"}

status_update_types ==
  {"application_confirmation", "application_rejection", "interview_invitation",
   "offer_letter"}

\* is_job_related without its threshold (a plausible slip)
is_job_related_at_any_confidence(email_type, confidence_score) ==
  Ret(email_type \in job_related_types)

\* is_job_related with the threshold excluded (a plausible slip: > for >=)
is_job_related_above(email_type, confidence_score) ==
  IF email_type \notin job_related_types THEN Ret(FALSE)
  ELSE IF confidence_score = NotANumber THEN Raised
  ELSE Ret(confidence_score > 60)

\* is_job_related: `email_type in job_related_types and confidence_score >= 0.6`;
\* the comparison is evaluated only when the type is in the list, and raises
\* when the confidence is not a number.
is_job_related(email_type, confidence_score) ==
  IF email_type \notin job_related_types THEN Ret(FALSE)
  ELSE IF confidence_score = NotANumber THEN Raised
  ELSE Ret(confidence_score >= 60)

\* should_update_job_status with the threshold of is_job_related (a plausible
\* slip: 0.6 for 0.7)
should_update_job_status_at_60(email_type, confidence_score) ==
  IF email_type \notin status_update_types THEN Ret(FALSE)
  ELSE IF confidence_score = NotANumber THEN Raised
  ELSE Ret(confidence_score >= 60)

\* should_update_job_status: `email_type in status_update_types and
\* confidence_score >= 0.7`.
should_update_job_status(email_type, confidence_score) ==
  IF email_type \notin status_update_types THEN Ret(FALSE)
  ELSE IF confidence_score = NotANumber THEN Raised
  ELSE Ret(confidence_score >= 70)

(***************************************************************************)
(* Strings are sequences of one-character strings.                         *)
(***************************************************************************)
UpperCase == {"G", "A", "I"}

LowerCase ==
  {"a", "b", "c", "d", "e", "f", "g", "h", "i", "j", "k", "l", "m",
   "n", "o", "p", "q", "r", "s", "t", "u", "v", "w", "x", "y", "z"}

\* str.lower on one character.
LowerChar(c) ==
  CASE c = "G" -> "g" [] c = "A" -> "a" [] c = "I" -> "i" [] OTHER -> c

\* str.lower
Lower(s) == [i \in 1..Len(s) |-> LowerChar(s[i])]

\* \w of the re module: letters, digits, underscore.
IsWordChar(c) == c \in UpperCase \cup LowerCase \cup {"0", "1", "_"}

\* \s of the re module (and the separators of str.split()).
IsSpace(c) == c = " "

\* str.endswith
EndsWith(s, suffix) ==
  /\ Len(suffix) <= Len(s)
  /\ SubSeq(s, Len(s) - Len(suffix) + 1, Len(s)) = suffix

\* `s in t` on strings
IsSubstring(s, t) ==
  \E i \in 0..(Len(t) - Len(s)) : SubSeq(t, i + 1, i + Len(s)) = s

\* `c in s` for one character
HasChar(s, c) == \E i \in 1..Len(s) : s[i] = c

\* str.split(): the list of maximal runs of non-space characters.
RECURSIVE Split(_)
Split(s) ==
  IF s = <<>> THEN <<>>
  ELSE IF IsSpace(s[1]) THEN Split(Tail(s))
  ELSE LET RECURSIVE WordLen(_)
           WordLen(i) == IF i > Len(s) \/ IsSpace(s[i]) THEN i - 1 ELSE WordLen(i + 1)
           n == WordLen(1)
       IN  <<SubSeq(s, 1, n)>> \o Split(SubSeq(s, n + 1, Len(s)))

\* ' '.join(words)
RECURSIVE JoinWithSpace(_)
JoinWithSpace(words) ==
  IF words = <<>> THEN <<>>
  ELSE IF Len(words) = 1 THEN words[1]
  ELSE words[1] \o <<" ">> \o JoinWithSpace(Tail(words))

\* re.sub(r'[^\w\s]', '', s)
RECURSIVE RemoveSpecial(_)
RemoveSpecial(s) ==
  IF s = <<>> THEN <<>>
  ELSE IF IsWordChar(s[1]) \/ IsSpace(s[1]) THEN <<s[1]>> \o RemoveSpecial(Tail(s))
  ELSE RemoveSpecial(Tail(s))

(***************************************************************************)
(* difflib.SequenceMatcher(None, a, b).ratio() = 2 * M / (len(a) + len(b)) *)
(* where M is the total size of the matching blocks: the longest common    *)
(* block (the one starting earliest in a, then earliest in b), then the    *)
(* same again to its left and to its right.  No junk; the popularity       *)
(* heuristic only applies to sequences of 200 elements or more.            *)
(***************************************************************************)
Min(x, y) == IF x <= y THEN x ELSE y

\* a[i+1 .. i+k] = b[j+1 .. j+k]
BlockAt(a, b, i, j, k) ==
  /\ i + k <= Len(a)
  /\ j + k <= Len(b)
  /\ SubSeq(a, i + 1, i + k) = SubSeq(b, j + 1, j + k)

\* every common block <<i, j, k>> of a and b, the empty ones included
Blocks(a, b) ==
  {m \in (0..Len(a)) \X (0..Len(b)) \X (0..Min(Len(a), Len(b))) :
     BlockAt(a, b, m[1], m[2], m[3])}

\* find_longest_match over the whole of a and b: the longest block, of those
\* the one starting earliest in a, of those the one starting earliest in b
find_longest_match(a, b) ==
  CHOOSE m \in Blocks(a, b) :
    \A o \in Blocks(a, b) :
      \/ m[3] > o[3]
      \/ m[3] = o[3] /\ m[1] < o[1]
      \/ m[3] = o[3] /\ m[1] = o[1] /\ m[2] <= o[2]

\* the sum of the sizes of get_matching_blocks(): the longest block, then the
\* blocks to its left and to its right
RECURSIVE MatchingSize(_, _)
MatchingSize(a, b) ==
  IF a = <<>> \/ b = <<>> THEN 0
  ELSE CHOOSE size \in
         {IF m[3] = 0 THEN 0
          ELSE m[3] + MatchingSize(SubSeq(a, 1, m[1]), SubSeq(b, 1, m[2]))
                    + MatchingSize(SubSeq(a, m[1] + m[3] + 1, Len(a)),
                                   SubSeq(b, m[2] + m[3] + 1, Len(b))) :
            m \in {find_longest_match(a, b)}} : TRUE

(***************************************************************************)
(* Scores are exact fractions [n, d] with d > 0 (the code uses floats).    *)
(***************************************************************************)
RECURSIVE GCD(_, _)
GCD(x, y) == IF y = 0 THEN x ELSE GCD(y, x % y)

\* the fraction n/d in lowest terms
Frac(n, d) == [n |-> n \div GCD(n, d), d |-> d \div GCD(n, d)]

FZero == Frac(0, 1)

FOne == Frac(1, 1)

FGeq(x, y) == x.n * y.d >= y.n * x.d

FGt(x, y) == x.n * y.d > y.n * x.d

FMax(x, y) == IF FGeq(x, y) THEN x ELSE y

FMin(x, y) == IF FGeq(x, y) THEN y ELSE x

FAdd(x, y) == Frac(x.n * y.d + y.n * x.d, x.d * y.d)

FMul(x, y) == Frac(x.n * y.n, x.d * y.d)

\* SequenceMatcher.ratio(): 1.0 when both sequences are empty
ratio(a, b) ==
  IF Len(a) + Len(b) = 0 THEN FOne
  ELSE Frac(2 * MatchingSize(a, b), Len(a) + Len(b))

(***************************************************************************)
(* JobMatcher                                                              *)
(***************************************************************************)
min_confidence_threshold == Frac(6, 10)

high_confidence_threshold == Frac(8, 10)

\* the suffixes _normalize_company_name strips, in the order it tries them
suffixes ==
  <<<<" ", "i", "n", "c">>,
    <<" ", "c", "o", "r", "p">>,
    <<" ", "l", "l", "c">>,
    <<" ", "l", "t", "d">>,
    <<" ", "c", "o", "m", "p", "a", "n", "y">>,
    <<" ", "c", "o">>,
    <<" ", "&", " ", "c", "o">>>>

\* the loop `for suffix in suffixes: if company.endswith(suffix): strip it`
RECURSIVE StripSuffixes(_, _)
StripSuffixes(company, k) ==
  IF k > Len(suffixes) THEN company
  ELSE IF EndsWith(company, suffixes[k])
       THEN StripSuffixes(SubSeq(company, 1, Len(company) - Len(suffixes[k])), k + 1)
       ELSE StripSuffixes(company, k + 1)

\* _normalize_company_name: lowercase, strip the suffixes, remove the special
\* characters, collapse the white space.
normalize_company_name(company) ==
  IF company = <<>> THEN <<>>
  ELSE JoinWithSpace(Split(RemoveSpecial(StripSuffixes(Lower(company), 1))))

\* str.split('@')[1]: the text between the first '@' and the next one
AfterAt(s) ==
  LET first == CHOOSE i \in 1..Len(s) : s[i] = "@" /\ \A j \in 1..(i - 1) : s[j] # "@"
      rest == SubSeq(s, first + 1, Len(s))
      stop == IF HasChar(rest, "@")
              THEN (CHOOSE i \in 1..Len(rest) :
                      rest[i] = "@" /\ \A j \in 1..(i - 1) : rest[j] # "@") - 1
              ELSE Len(rest)
  IN  SubSeq(rest, 1, stop)

TopLevelDomains ==
  {<<".", "c", "o", "m">>, <<".", "o", "r", "g">>, <<".", "n", "e", "t">>, <<".", "e", "d", "u">>, <<".", "g", "o", "v">>}

\* re.sub(r'\.(com|org|net|edu|gov)$', '', domain)
StripTopLevelDomain(domain) ==
  IF \E t \in TopLevelDomains : EndsWith(domain, t)
  THEN SubSeq(domain, 1, Len(domain) - 4)
  ELSE domain

\* _match_domain
match_domain(job_company, email_company) ==
  IF ~HasChar(email_company, "@") /\ ~HasChar(email_company, ".") THEN FZero
  ELSE LET domain == StripTopLevelDomain(IF HasChar(email_company, "@")
                                         THEN AfterAt(email_company)
                                         ELSE email_company)
           job_company_clean == normalize_company_name(job_company)
       IN  IF IsSubstring(domain, job_company_clean) \/ IsSubstring(job_company_clean, domain)
           THEN Frac(8, 10)
           ELSE FZero

\* _match_company_name comparing the names as written, in lower case (a
\* plausible slip: the normalization left out)
match_company_name_unnormalized(job_company, email_company) ==
  IF job_company = <<>> \/ email_company = <<>> THEN FZero
  ELSE LET job_company_clean == Lower(job_company)
           email_company_clean == Lower(email_company)
           similarity == ratio(job_company_clean, email_company_clean)
       IN  IF job_company_clean = email_company_clean THEN FOne
           ELSE IF IsSubstring(job_company_clean, email_company_clean)
                   \/ IsSubstring(email_company_clean, job_company_clean)
                THEN Frac(9, 10)
           ELSE IF HasChar(email_company, "@") \/ HasChar(email_company, ".")
                THEN FMax(similarity, match_domain(job_company, email_company))
           ELSE similarity

\* _match_company_name
match_company_name(job_company, email_company) ==
  IF job_company = <<>> \/ email_company = <<>> THEN FZero
  ELSE LET job_company_clean == normalize_company_name(job_company)
           email_company_clean == normalize_company_name(email_company)
           similarity == ratio(job_company_clean, email_company_clean)
       IN  IF job_company_clean = email_company_clean THEN FOne
           ELSE IF IsSubstring(job_company_clean, email_company_clean)
                   \/ IsSubstring(email_company_clean, job_company_clean)
                THEN Frac(9, 10)
           ELSE IF HasChar(email_company, "@") \/ HasChar(email_company, ".")
                THEN FMax(similarity, match_domain(job_company, email_company))
           ELSE similarity

\* set(title.split())
WordSet(s) == {Split(s)[i] : i \in 1..Len(Split(s))}

\* _match_job_title
match_job_title(job_title, email_title) ==
  IF job_title = <<>> \/ email_title = <<>> THEN FZero
  ELSE LET job_title_clean == Lower(job_title)
           email_title_clean == Lower(email_title)
           similarity == ratio(job_title_clean, email_title_clean)
           job_words == WordSet(job_title_clean)
           email_words == WordSet(email_title_clean)
           common_words == job_words \cap email_words
           most == IF Cardinality(job_words) >= Cardinality(email_words)
                   THEN Cardinality(job_words) ELSE Cardinality(email_words)
       IN  IF job_title_clean = email_title_clean THEN FOne
           ELSE IF IsSubstring(job_title_clean, email_title_clean)
                   \/ IsSubstring(email_title_clean, job_title_clean)
                THEN Frac(9, 10)
           ELSE IF job_words # {} /\ email_words # {}
                THEN FMax(similarity,
                          FMul(Frac(Cardinality(common_words), most), Frac(8, 10)))
           ELSE similarity

\* half days in a day
TicksPerDay == 2

\* the absent time stamp (None)
NoDate == -1

Abs(x) == IF x < 0 THEN -x ELSE x

\* timedelta.days: the number of whole days, rounded towards minus infinity
DeltaDays(ticks) ==
  IF ticks >= 0 THEN ticks \div TicksPerDay
  ELSE -((-ticks + TicksPerDay - 1) \div TicksPerDay)

\* _calculate_temporal_score with the week excluded from its bucket (a plausible
\* slip: < 7 for <= 7)
calculate_temporal_score_under_a_week(job_date, email_date) ==
  IF job_date = NoDate \/ email_date = NoDate THEN FZero
  ELSE LET days_diff == Abs(DeltaDays(email_date - job_date))
       IN  CASE days_diff <= 1 -> FOne
             [] days_diff > 1 /\ days_diff < 7 -> Frac(9, 10)
             [] days_diff >= 7 /\ days_diff <= 30 -> Frac(7, 10)
             [] days_diff > 30 /\ days_diff <= 90 -> Frac(5, 10)
             [] OTHER -> Frac(2, 10)

\* _calculate_temporal_score
calculate_temporal_score(job_date, email_date) ==
  IF job_date = NoDate \/ email_date = NoDate THEN FZero
  ELSE LET days_diff == Abs(DeltaDays(email_date - job_date))
       IN  CASE days_diff <= 1 -> FOne
             [] days_diff > 1 /\ days_diff <= 7 -> Frac(9, 10)
             [] days_diff > 7 /\ days_diff <= 30 -> Frac(7, 10)
             [] days_diff > 30 /\ days_diff <= 90 -> Frac(5, 10)
             [] OTHER -> Frac(2, 10)

\* _match_location: a constant
match_location(job_location, company_name) == Frac(3, 10)

\* _calculate_match_score with the weights of company and title exchanged (a
\* plausible slip)
calculate_match_score_title_first(job, company_name, job_title, email_date) ==
  IF company_name = <<>> THEN FZero
  ELSE LET company_score == match_company_name(job.company, company_name)
           title_score == IF job_title # <<>> /\ job.title # <<>>
                          THEN match_job_title(job.title, job_title)
                          ELSE FZero
           time_score == IF email_date # NoDate /\ job.created_at # NoDate
                         THEN calculate_temporal_score(job.created_at, email_date)
                         ELSE FZero
           location_score == IF job.location # <<>>
                             THEN match_location(job.location, company_name)
                             ELSE FZero
           total_score ==
             FAdd(FAdd(FMul(company_score, Frac(3, 10)), FMul(title_score, Frac(4, 10))),
                  FAdd(FMul(time_score, Frac(2, 10)), FMul(location_score, Frac(1, 10))))
       IN  FMin(total_score, FOne)

\* _calculate_match_score: 0.4 company + 0.3 title + 0.2 time + 0.1 location,
\* at most 1.0; 0.0 when the email has no company name.  Line 107 reads
\* job.created_at, the creation time of the listing (see JobCreatedAt).
calculate_match_score(job, company_name, job_title, email_date) ==
  IF company_name = <<>> THEN FZero
  ELSE LET company_score == match_company_name(job.company, company_name)
           title_score == IF job_title # <<>> /\ job.title # <<>>
                          THEN match_job_title(job.title, job_title)
                          ELSE FZero
           time_score == IF email_date # NoDate /\ job.created_at # NoDate
                         THEN calculate_temporal_score(job.created_at, email_date)
                         ELSE FZero
           location_score == IF job.location # <<>>
                             THEN match_location(job.location, company_name)
                             ELSE FZero
           total_score ==
             FAdd(FAdd(FMul(company_score, Frac(4, 10)), FMul(title_score, Frac(3, 10))),
                  FAdd(FMul(time_score, Frac(2, 10)), FMul(location_score, Frac(1, 10))))
       IN  FMin(total_score, FOne)

\* should_auto_update_status with the threshold of find_matching_job (a
\* plausible slip)
should_auto_update_status_at_min(confidence_score) ==
  FGeq(confidence_score, min_confidence_threshold)

\* should_auto_update_status
should_auto_update_status(confidence_score) ==
  FGeq(confidence_score, high_confidence_threshold)

\* the result of dict.get on a missing key
None == "None"

\* get_status_update_mapping with an entry for status_update (a plausible slip:
\* every job-related type given a status)
get_status_update_mapping_with_update(email_type) ==
  CASE email_type = "application_confirmation" -> "applied"
    [] email_type = "application_rejection" -> "rejected"
    [] email_type = "interview_invitation" -> "interviewed"
    [] email_type = "offer_letter" -> "hired"
    [] email_type = "status_update" -> "applied"
    [] OTHER -> None

\* get_status_update_mapping
get_status_update_mapping(email_type) ==
  CASE email_type = "application_confirmation" -> "applied"
    [] email_type = "application_rejection" -> "rejected"
    [] email_type = "interview_invitation" -> "interviewed"
    [] email_type = "offer_letter" -> "hired"
    [] OTHER -> None

(***************************************************************************)
(* Fixtures: users, job listings, messages and replies of the LLM          *)
(***************************************************************************)
\* the total number of emails the Gmail API hands out over all runs
MaxEmails == 2

Users == {"u1", "u2"}

Statuses == {"interested", "applied", "interviewed", "rejected", "hired"}

Glean == <<"G", "l", "e", "a", "n">>

GleanInc == <<"G", "l", "e", "a", "n", " ", "i", "n", "c">>

Acme == <<"A", "c", "m", "e">>

SwDev == <<"s", "w", " ", "d", "e", "v">>

Sw == <<"s", "w">>

Dba == <<"d", "b", "a">>

SanFrancisco == <<"s", "f">>

\* The creation time of the listings, in ticks.  JobMatcher reads it as
\* job.created_at (job_matcher.py:107).  JobListing (job.py:6-32) declares
\* posted_date and extracted_date and no column of that name, so the attribute
\* can only come from the declarative Base, app/db/base_class.py, which is not
\* among the sources: the listings are given the job-creation time the
\* specification speaks of.
JobCreatedAt == 100

\* the job_listings table: id is the position
\* extracted_date and applied are the columns of job.py:24-25: the first two
\* listings were extracted when they were created, the third 15 days and the
\* fourth 19 and a half days later; applied defaults to False.
JobListings ==
  <<[company |-> GleanInc, title |-> SwDev, created_at |-> JobCreatedAt,
     location |-> SanFrancisco, extracted_date |-> JobCreatedAt, applied |-> FALSE],
    [company |-> Acme, title |-> SwDev, created_at |-> JobCreatedAt,
     location |-> <<>>, extracted_date |-> JobCreatedAt, applied |-> FALSE],
    [company |-> Glean, title |-> Dba, created_at |-> JobCreatedAt,
     location |-> SanFrancisco, extracted_date |-> JobCreatedAt + 15 * TicksPerDay,
     applied |-> FALSE],
    [company |-> Glean, title |-> Sw, created_at |-> JobCreatedAt,
     location |-> SanFrancisco, extracted_date |-> JobCreatedAt + 39, applied |-> FALSE]>>

MsgIds == {"m1", "m2"}

\* received_date of a message: m1 arrives half a day after the listings were
\* created, m3 a day after, m2 95 days after
received_date(m) ==
  CASE m = "m1" -> 101
    [] m = "m3" -> 102
    [] OTHER -> 100 + 95 * TicksPerDay

AllFields == {"email_type", "confidence_score", "company_name", "job_title"}

Reply(kind, fields, type, conf, company, title) ==
  [kind |-> kind, fields |-> fields, email_type |-> type, confidence_score |-> conf,
   company_name |-> company, job_title |-> title]

\* What the chat completion API may answer for one email.
LLMReplies ==
  {Reply("api_error", {}, "unknown", 0, <<>>, <<>>),
   Reply("malformed", {}, "unknown", 0, <<>>, <<>>),
   Reply("object", AllFields \ {"confidence_score"}, "application_confirmation", 0, Glean, SwDev),
   Reply("object", AllFields, "not_job_related", 99, Glean, SwDev),
   Reply("object", AllFields, "status_update", 99, Glean, SwDev),
   Reply("object", AllFields, "application_confirmation", 65, Glean, SwDev),
   Reply("object", AllFields, "application_confirmation", 99, Glean, SwDev),
   Reply("object", AllFields, "interview_invitation", 59, Glean, SwDev),
   Reply("object", AllFields, "interview_invitation", 65, Glean, SwDev),
   Reply("object", AllFields, "interview_invitation", 75, Glean, <<>>),
   Reply("object", AllFields, "interview_invitation", 99, Glean, SwDev),
   Reply("object", AllFields, "application_rejection", 99, Acme, SwDev),
   Reply("object", AllFields, "offer_letter", 99, Glean, Dba)}

(***************************************************************************)
(* State                                                                   *)
(***************************************************************************)
VARIABLES
  job_listings,      \* table job_listings (committed rows), id = position
  job_applications,  \* table job_applications (committed rows), id = position
  email_events,      \* table email_events (committed rows), id = position
  connections,       \* table user_gmail_connections, one row per user or NoRow
  session,           \* the email_event object of the run and its state in the session
  pc,                \* where the run of process_user_emails is
  run,               \* the locals of process_user_emails
  cur,               \* the locals of _process_single_email
  last,              \* what _process_single_email returned last
  result,            \* what process_user_emails returned last
  fetched,           \* the number of emails fetched so far
  probe,             \* the last call of a pure function: its argument and its result
  database,          \* the dialect behind SQLALCHEMY_DATABASE_URI
  requests,          \* the requests to the endpoints of jobs.py, and where each is
  runs               \* the runs of process_user_emails that overlap, each with its session

vars ==
  <<job_listings, job_applications, email_events, connections, session, pc, run,
    cur, last, result, fetched, probe, database, requests, runs>>

db == <<job_listings, job_applications, email_events, connections>>

NoRow == [absent |-> TRUE]

NoRun == [user_id |-> "none", emails |-> <<>>, idx |-> 0,
          processed_count |-> 0, status_updates |-> 0]

NoCur == [classification |-> FallbackClassification,
          matching |-> "not_run",
          match |-> [job_id |-> 0, score |-> [n |-> 0, d |-> 1]],
          status_updated |-> FALSE, mutated |-> 0]

NoLast == [email_message_id |-> "none", processed |-> FALSE, status_updated |-> FALSE,
           exception |-> FALSE, mutated |-> 0]

NoResult == [success |-> FALSE, emails_processed |-> 0, status_updates |-> 0,
             message |-> "none"]

NoProbe == [fn |-> "none", arg |-> <<>>, out |-> <<>>]

\* the number of requests to the endpoints of jobs.py
MaxRequests == 2

\* a request that has not arrived yet
NoRequest ==
  [pc |-> "new", user_id |-> "none", job_id |-> 0, existing |-> 0,
   existing_status |-> "none", status_code |-> 0]

\* The database of the deployment: settings.SQLALCHEMY_DATABASE_URI is
\* PostgreSQL unless the environment sets another URI.  PostgreSQL rejects a
\* string longer than its VARCHAR(n) column; SQLite stores it.
Databases == {"postgresql", "sqlite"}

\* The session holds no email_event object.
CleanSession == [email_event |-> NoRow, state |-> "none"]

\* The two callers of process_user_emails that can overlap: the periodic task
\* monitor_and_process_emails and the endpoint POST /process-emails, each with
\* a session of its own.
RunIds == {"task", "manual"}

\* a run that has not started
NoRuns ==
  [p \in RunIds |->
     [pc |-> "new", email |-> "none", session |-> CleanSession,
      classification |-> FallbackClassification,
      processed |-> FALSE, status_updated |-> FALSE, exception |-> FALSE,
      mutated |-> 0, total |-> 0, success |-> FALSE]]

Init ==
  /\ job_listings = JobListings
  /\ \E s1 \in {"interested", "interviewed"} :
       job_applications =
         <<[user_id |-> "u1", job_id |-> 1, application_status |-> s1],
           [user_id |-> "u1", job_id |-> 2, application_status |-> "applied"],
           [user_id |-> "u2", job_id |-> 3, application_status |-> "applied"],
           [user_id |-> "u1", job_id |-> 4, application_status |-> "interested"]>>
  /\ email_events = <<>>
  /\ \E authorized \in BOOLEAN, expiry \in {"none", "past", "future"} :
       connections =
         [u \in Users |->
            IF u = "u1"
            THEN [is_authorized |-> authorized, token_expiry |-> expiry,
                  access_token |-> "t1", refresh_token |-> "r1",
                  last_sync_at |-> 0, total_emails_processed |-> 0]
            ELSE NoRow]
  /\ session = CleanSession
  /\ pc = "idle"
  /\ run = NoRun
  /\ cur = NoCur
  /\ last = NoLast
  /\ result = NoResult
  /\ fetched = 0
  /\ probe = NoProbe
  /\ database \in Databases
  /\ requests = [r \in 1..MaxRequests |-> NoRequest]
  /\ runs = NoRuns

(***************************************************************************)
(* JobMatcher.find_matching_job                                            *)
(***************************************************************************)
OpenStatuses == {"interested", "applied", "interviewed"}

\* the applications the query of find_matching_job returns
user_applications(applications, user_id) ==
  {a \in DOMAIN applications :
     /\ applications[a].user_id = user_id
     /\ applications[a].application_status \in OpenStatuses}

\* the listings of those applications that still exist (`if not job: continue`)
CandidateJobs(applications, listings, user_id) ==
  {applications[a].job_id : a \in user_applications(applications, user_id)}
    \cap DOMAIN listings

NoMatch == [job_id |-> 0, score |-> FZero]

\* _calculate_match_score, tabulated once over the listings, the company names
\* and job titles of the replies and the dates of the messages
MatchScores ==
  [job \in {JobListings[j] : j \in DOMAIN JobListings},
   company_name \in {r.company_name : r \in LLMReplies},
   job_title \in {r.job_title : r \in LLMReplies},
   email_date \in {received_date(m) : m \in MsgIds \cup {"m3"}} |->
     calculate_match_score(job, company_name, job_title, email_date)]

\* find_matching_job without the threshold test of line 58 (a plausible slip):
\* the best candidate is returned whatever its score
find_matching_job_best_only(applications, listings, user_id, company_name, job_title, email_date) ==
  LET jobs == CandidateJobs(applications, listings, user_id)
      score(j) == MatchScores[listings[j], company_name, job_title, email_date]
      kept == {j \in jobs : /\ FGt(score(j), FZero)
                            /\ \A k \in jobs : FGeq(score(j), score(k))}
  IN  IF kept = {} THEN {NoMatch}
      ELSE {[job_id |-> j, score |-> score(j)] : j \in kept}

\* find_matching_job: the values it may return.  The loop keeps the first
\* listing with the highest score (score > best_score), provided the score is
\* at least min_confidence_threshold; the query has no ORDER BY, so any
\* listing with the highest score can be the first.  best_score starts at 0.0,
\* so a score of 0.0 is never kept.
find_matching_job(applications, listings, user_id, company_name, job_title, email_date) ==
  LET jobs == CandidateJobs(applications, listings, user_id)
      score(j) == MatchScores[listings[j], company_name, job_title, email_date]
      kept == {j \in jobs : /\ FGeq(score(j), min_confidence_threshold)
                            /\ FGt(score(j), FZero)
                            /\ \A k \in jobs : FGeq(score(j), score(k))}
  IN  IF kept = {} THEN {NoMatch}
      ELSE {[job_id |-> j, score |-> score(j)] : j \in kept}

(***************************************************************************)
(* EmailProcessor._update_job_status, lines 196-259                        *)
(***************************************************************************)
\* the row of the EmailEvent under construction, as the INSERT of the flush
\* writes it (processed_at empty, status_updated and matched_job_listing_id at
\* their defaults)
NewEmailEvent(user_id, email_message_id, classification) ==
  [user_id |-> user_id,
   email_message_id |-> email_message_id,
   email_received_at |-> received_date(email_message_id),
   email_type |-> classification.email_type,
   confidence_score |-> classification.confidence_score,
   company_name |-> classification.company_name,
   ai_data |-> classification,
   matched_job_listing_id |-> 0,
   status_updated |-> FALSE,
   processed_at |-> FALSE]

\* db.rollback(): the uncommitted work is dropped; an object that was added in
\* the rolled-back transaction is expunged from the session.
Rollback(sess) ==
  IF sess.state = "pending" THEN [sess EXCEPT !.state = "expunged"] ELSE sess

\* _update_job_status, called with the session in state sess.  match_fault:
\* the queries of find_matching_job raise (it catches and returns None);
\* update_fault: the application query or the commit of line 250 raises
\* (caught at line 256: rollback, return False).
UpdateJobStatus(sess, user_id, classification, match_fault, update_fault) ==
  \E m \in IF match_fault THEN {NoMatch}
           ELSE find_matching_job(job_applications, job_listings, user_id,
                                  classification.company_name, classification.job_title,
                                  sess.email_event.email_received_at) :
    LET new_status == get_status_update_mapping(classification.email_type)
        found == {a \in DOMAIN job_applications :
                    /\ job_applications[a].user_id = user_id
                    /\ job_applications[a].job_id = m.job_id}
        Locals(status_updated, mutated) ==
          [classification |-> classification,
           matching |-> IF match_fault THEN "raised" ELSE "returned",
           match |-> m, status_updated |-> status_updated, mutated |-> mutated]
        Unchanged ==
          /\ cur' = Locals(FALSE, 0)
          /\ session' = sess
          /\ UNCHANGED <<job_applications, email_events>>
    IN  IF m = NoMatch THEN Unchanged                                   \* line 206
        ELSE IF ~should_auto_update_status(m.score) THEN Unchanged     \* line 223
        ELSE IF new_status = None THEN Unchanged                       \* line 229
        ELSE IF update_fault                                            \* line 256
             THEN /\ cur' = Locals(FALSE, 0)
                  /\ session' = Rollback(sess)
                  /\ UNCHANGED <<job_applications, email_events>>
        ELSE IF found = {} THEN Unchanged                               \* line 239
        ELSE \E a \in found :                                           \* .first()
               /\ job_applications' =
                    [job_applications EXCEPT ![a].application_status = new_status]
               \* email_event.matched_job_id is not a column of email_events:
               \* the assignment of line 248 writes nothing
               \* the commit of line 250 inserts the event when it is pending
               /\ email_events' = IF sess.state = "pending"
                                  THEN Append(email_events, sess.email_event)
                                  ELSE email_events
               /\ session' = [sess EXCEPT !.state = "persistent"]
               /\ cur' = Locals(TRUE, a)

(***************************************************************************)
(* EmailProcessor.process_user_emails, lines 28-67: connection, token      *)
(* refresh, fetch                                                          *)
(***************************************************************************)
Failure(message) ==
  [success |-> FALSE, emails_processed |-> 0, status_updates |-> 0, message |-> message]

\* GmailService.refresh_access_token: a new access token with its expiry, or
\* an error record (the exception of credentials.refresh is caught)
refresh_access_token(refresh_token) ==
  {[status |-> "success", access_token |-> "t2", token_expiry |-> "future"],
   [status |-> "error", access_token |-> "none", token_expiry |-> "none"]}

\* is_token_expired with the test for a missing expiry dropped (a plausible slip)
is_token_expired_when_past(connection) == connection.token_expiry = "past"

\* UserGmailConnection.is_token_expired: no expiry recorded, or the expiry is
\* in the past
is_token_expired(connection) ==
  IF connection.token_expiry = "none" THEN TRUE
  ELSE connection.token_expiry = "past"

\* The batches the Gmail API may hand to a run: any sequence of messages, as
\* long as the total over all runs stays within MaxEmails.
fetch_job_emails ==
  UNION {[1..n -> MsgIds] : n \in 0..(MaxEmails - fetched)}

StartRun(user_id, emails, refresh_result, commit_fault) ==
  /\ pc = "idle"
  /\ UNCHANGED <<job_listings, job_applications, email_events, session, cur, probe, database, requests, runs>>
  /\ LET connection == connections[user_id]
         Fails(message) ==
           /\ result' = Failure(message)
           /\ UNCHANGED <<connections, pc, run, last, fetched>>
     IN  IF connection = NoRow
         THEN Fails("Gmail not connected or authorized")                  \* line 34
         ELSE IF ~connection.is_authorized
         THEN Fails("Gmail not connected or authorized")                  \* line 34
         ELSE IF is_token_expired(connection) /\ refresh_result.status # "success"
         THEN Fails("Failed to refresh Gmail token")                      \* line 45
         ELSE IF is_token_expired(connection) /\ commit_fault
         THEN Fails("Failed to process emails")                           \* line 97
         ELSE /\ connections' =
                   IF is_token_expired(connection)
                   THEN [connections EXCEPT                                \* lines 54-56
                           ![user_id].access_token = refresh_result.access_token,
                           ![user_id].token_expiry = refresh_result.token_expiry]
                   ELSE connections
              /\ fetched' = fetched + Len(emails)
              /\ last' = NoLast
              /\ IF emails = <<>>
                 THEN /\ result' = [success |-> TRUE, emails_processed |-> 0,   \* line 61
                                    status_updates |-> 0,
                                    message |-> "No new emails found"]
                      /\ UNCHANGED <<pc, run>>
                 ELSE /\ pc' = "email"
                      /\ run' = [user_id |-> user_id, emails |-> emails, idx |-> 1,
                                 processed_count |-> 0, status_updates |-> 0]
                      /\ result' = NoResult

(***************************************************************************)
(* EmailProcessor._process_single_email and the loop body, lines 73-83     *)
(***************************************************************************)
\* The email the loop is at.
CurrentEmail == run.emails[run.idx]

\* `for email in emails` after _process_single_email returned r: the counters
\* of lines 76-79, then the next email or the end of the loop.
EndEmail(r) ==
  /\ last' = r
  /\ run' = [run EXCEPT
               !.idx = @ + 1,
               !.processed_count = IF r.processed THEN @ + 1 ELSE @,
               !.status_updates = IF r.status_updated THEN @ + 1 ELSE @]
  /\ pc' = IF run.idx = Len(run.emails) THEN "finish" ELSE "email"

Skipped(exception) ==
  [email_message_id |-> CurrentEmail, processed |-> FALSE, status_updated |-> FALSE,
   exception |-> exception, mutated |-> 0]

\* An exception escapes _process_single_email and the loop: the handler of
\* line 97 ends the run (what SkipEmail would do without the except clauses
\* of lines 81 and 181).
SkipEmailAborts(exception, classification) ==
  /\ session' = CleanSession
  /\ cur' = [NoCur EXCEPT !.classification = classification]
  /\ UNCHANGED <<job_applications, email_events>>
  /\ IF exception
     THEN /\ pc' = "idle"
          /\ run' = NoRun
          /\ last' = Skipped(exception)
          /\ result' = Failure("Failed to process emails")
     ELSE /\ EndEmail(Skipped(exception))
          /\ UNCHANGED result

\* _process_single_email returns {"processed": False, "status_updated": False}:
\* at lines 118 and 137, or from the except clause of lines 181-184 (rollback)
\* when nothing of the email is committed; the loop goes on.
SkipEmail(exception, classification) ==
  /\ EndEmail(Skipped(exception))
  /\ session' = CleanSession
  /\ cur' = [NoCur EXCEPT !.classification = classification]
  /\ UNCHANGED <<job_applications, email_events, result>>

\* the duplicate check never finds the row (a plausible slip)
ExistingEventMissed(events, email_message_id) == FALSE

\* the query of lines 112-114: is there an EmailEvent with this message id?
ExistingEvent(events, email_message_id) ==
  \E e \in DOMAIN events : events[e].email_message_id = email_message_id

\* the unique index is not there: a second row with the message id is
\* accepted (a plausible slip)
UniqueViolationNever(events, email_message_id) == FALSE

\* The UNIQUE constraint on email_events.email_message_id: the INSERT of a
\* second row with the same message id raises IntegrityError.
UniqueViolation(events, email_message_id) ==
  \E e \in DOMAIN events : events[e].email_message_id = email_message_id

\* EmailEvent.email_type is a String(20) column
email_type_length == 20

\* len(email_type)
NameLength(email_type) ==
  CASE email_type = "application_confirmation" -> 24
    [] email_type = "application_rejection" -> 21
    [] email_type = "interview_invitation" -> 20
    [] email_type = "not_job_related" -> 15
    [] email_type = "status_update" -> 13
    [] email_type = "offer_letter" -> 12
    [] OTHER -> 7   \* 'unknown'

\* The INSERT of an EmailEvent whose email_type does not fit the column: it
\* raises DataError on PostgreSQL.
DataTooLong(email_type) ==
  /\ database = "postgresql"
  /\ NameLength(email_type) > email_type_length

\* The database call of _process_single_email that raises, if any: the INSERT of
\* the flush, the queries of find_matching_job, or the application query or the
\* commit of _update_job_status (an earlier failure pre-empts the later calls).
Faults == {"none", "flush", "match", "update"}

\* lines 110-165: the duplicate check, the classification, the INSERT of the
\* EmailEvent (flush) and _update_job_status.
ProcessSingleEmail(llm, fault) ==
  /\ pc = "email"
  /\ UNCHANGED <<job_listings, connections, fetched, probe, database, requests, runs>>
  /\ LET classified == classify_email(llm)
         classification == classified.val
         job_related == is_job_related(classification.email_type,
                                       classification.confidence_score)
         should_update == should_update_job_status(classification.email_type,
                                                   classification.confidence_score)
         flushed == [email_event |->
                       NewEmailEvent(run.user_id, CurrentEmail, classification),
                     state |-> "pending"]
     IN  IF ExistingEvent(email_events, CurrentEmail)
         THEN SkipEmail(FALSE, FallbackClassification)                    \* line 116
         ELSE IF classified.exc THEN SkipEmail(TRUE, FallbackClassification)
         ELSE IF job_related.exc THEN SkipEmail(TRUE, classification)     \* line 181
         ELSE IF ~job_related.val THEN SkipEmail(FALSE, classification)   \* line 132
         ELSE IF \/ fault = "flush"
                 \/ UniqueViolation(email_events, CurrentEmail)
                 \/ DataTooLong(classification.email_type)
              THEN SkipEmail(TRUE, classification)                        \* line 155
         ELSE IF should_update.exc THEN SkipEmail(TRUE, classification)
         ELSE /\ pc' = "mark"
              /\ UNCHANGED <<run, last, result>>
              /\ IF should_update.val
                 THEN UpdateJobStatus(flushed, run.user_id, classification,
                                      fault = "match", fault = "update")
                 ELSE /\ session' = flushed
                      /\ cur' = [NoCur EXCEPT !.classification = classification]
                      /\ UNCHANGED <<job_applications, email_events>>

\* lines 167-184: processed_at and status_updated are set on the email_event
\* object and the session is committed; then the loop goes on.
MarkProcessed(commit_fault) ==
  /\ pc = "mark"
  /\ UNCHANGED <<job_listings, job_applications, connections, result, fetched, probe, database, requests, runs>>
  /\ LET marked == [session.email_event EXCEPT
                      !.processed_at = TRUE,
                      !.status_updated = cur.status_updated]
         row == CHOOSE e \in DOMAIN email_events :
                  email_events[e].email_message_id = CurrentEmail
     IN  IF commit_fault
         THEN \* line 181: rollback, the email counts as not processed
              /\ EndEmail([email_message_id |-> CurrentEmail, processed |-> FALSE,
                           status_updated |-> FALSE, exception |-> TRUE,
                           mutated |-> cur.mutated])
              /\ UNCHANGED email_events
         ELSE /\ EndEmail([email_message_id |-> CurrentEmail, processed |-> TRUE,
                           status_updated |-> cur.status_updated, exception |-> FALSE,
                           mutated |-> cur.mutated])
              /\ email_events' =
                   CASE session.state = "pending" -> Append(email_events, marked)
                     [] session.state = "persistent" ->
                          [email_events EXCEPT ![row] = marked]
                     [] OTHER -> email_events   \* expunged: nothing to write
  /\ session' = CleanSession
  /\ cur' = NoCur

\* lines 85-104: the statistics of the connection and the result of the run
FinishRun(commit_fault) ==
  /\ pc = "finish"
  /\ pc' = "idle"
  /\ run' = NoRun
  /\ IF commit_fault
     THEN /\ result' = Failure("Failed to process emails")               \* line 97
          /\ UNCHANGED connections
     ELSE /\ connections' =
               [connections EXCEPT
                  ![run.user_id].last_sync_at = @ + 1,   \* a later time stamp
                  ![run.user_id].total_emails_processed = @ + run.processed_count]
          /\ result' = [success |-> TRUE, emails_processed |-> run.processed_count,
                        status_updates |-> run.status_updates,
                        message |-> "Processed"]
  /\ UNCHANGED <<job_listings, job_applications, email_events, session, cur, last,
                 fetched, probe, database, requests, runs>>

Next ==
  \/ \E user_id \in Users, emails \in fetch_job_emails,
        refresh_result \in refresh_access_token("r1"), commit_fault \in BOOLEAN :
       StartRun(user_id, emails, refresh_result, commit_fault)
  \/ \E llm \in LLMReplies, fault \in Faults : ProcessSingleEmail(llm, fault)
  \/ \E commit_fault \in BOOLEAN : MarkProcessed(commit_fault)
  \/ \E commit_fault \in BOOLEAN : FinishRun(commit_fault)

Spec == Init /\ [][Next]_vars

TypeOK ==
  /\ pc \in {"idle", "email", "mark", "finish"}
  /\ fetched \in 0..MaxEmails
  /\ \A a \in DOMAIN job_applications : job_applications[a].application_status \in Statuses

(***************************************************************************)
(* EmailClassifier.classify_email on its own: any reply of the LLM         *)
(***************************************************************************)
ProbeReplies ==
  {Reply(kind, {}, "unknown", 0, <<>>, <<>>) : kind \in {"api_error", "malformed", "non_object"}}
    \cup {Reply("object", fields, type, conf, Glean, SwDev) :
            fields \in SUBSET AllFields, type \in EmailTypes \cup {"unknown"},
            conf \in {0, 60, 99}}

ClassifyEmail(llm) ==
  /\ probe' = [fn |-> "classify_email", arg |-> llm, out |-> classify_email(llm)]
  /\ UNCHANGED <<job_listings, job_applications, email_events, connections, session,
                 pc, run, cur, last, result, fetched, database, requests, runs>>

NextClassifier == \E llm \in ProbeReplies : ClassifyEmail(llm)

SpecClassifier == Init /\ [][NextClassifier]_vars

(***************************************************************************)
(* The endpoints of jobs.py that write job_applications                    *)
(***************************************************************************)
\* the values the form field `status` of update_application_status may carry:
\* any string
StatusForms == Statuses \cup {"withdrawn"}

\* the rest of the state, which the endpoints of jobs.py leave alone
pipeline ==
  <<job_listings, email_events, connections, session, pc, run, cur, last, result,
    fetched, probe, database, runs>>

\* The foreign keys of the models (job_applications.job_id references
\* job_listings.id, job.py:311, with no ON DELETE rule): PostgreSQL rejects an
\* INSERT that refers to no listing and a DELETE of a listing that is referred
\* to; SQLite, as SQLAlchemy connects to it, does not enforce foreign keys.
ForeignKeyEnforced == database = "postgresql"

\* get_db of rls_session.py, the session dependency of every endpoint of
\* jobs.py: it executes SET app.current_user_id = '...' (line 21), a statement
\* of PostgreSQL; on another database the statement raises and the request
\* ends with status 500 before its handler runs.
get_db_raises == database # "postgresql"

\* apply_to_job, lines 379-383: the query for an application of the user for
\* the job; without ORDER BY, .first() may return any row that matches.
ApplyToJobQuery(r, user_id, job_id) ==
  /\ requests[r] = NoRequest
  /\ LET found == {a \in DOMAIN job_applications :
                     /\ job_applications[a].user_id = user_id
                     /\ job_applications[a].job_id = job_id}
     IN  IF get_db_raises
         THEN requests' =
                [requests EXCEPT
                   ![r] = [pc |-> "done", user_id |-> user_id, job_id |-> job_id,
                           existing |-> 0, existing_status |-> "none",
                           status_code |-> 500]]
         ELSE \E a \in IF found = {} THEN {0} ELSE found :
                requests' =
                  [requests EXCEPT
                     ![r] = [pc |-> "queried", user_id |-> user_id, job_id |-> job_id,
                             existing |-> a,
                             existing_status |->
                               IF a = 0 THEN "none"
                               ELSE job_applications[a].application_status,
                             status_code |-> 0]]
  /\ UNCHANGED <<job_applications, pipeline>>

\* apply_to_job, lines 385-419: nothing to do, or the loaded row is set to
\* applied, or a new row is added; commit.  An exception gives a rollback and
\* the status code 500.
ApplyToJobCommit(r, commit_fault) ==
  /\ requests[r].pc = "queried"
  /\ LET req == requests[r]
         Respond(status_code) ==
           requests' = [requests EXCEPT ![r].pc = "done", ![r].status_code = status_code]
     IN  IF req.existing # 0 /\ req.existing_status = "applied"
         THEN Respond(200) /\ UNCHANGED job_applications             \* line 387
         ELSE IF \/ commit_fault
                 \/ /\ req.existing = 0
                    /\ ForeignKeyEnforced
                    /\ req.job_id \notin DOMAIN job_listings
         THEN Respond(500) /\ UNCHANGED job_applications             \* line 416
         ELSE /\ Respond(200)
              /\ job_applications' =
                   IF req.existing # 0
                   THEN [job_applications EXCEPT                       \* line 390
                           ![req.existing].application_status = "applied"]
                   ELSE Append(job_applications,                       \* line 397
                               [user_id |-> req.user_id, job_id |-> req.job_id,
                                application_status |-> "applied"])
  /\ UNCHANGED pipeline

\* update_application_status, lines 496-542
UpdateApplicationStatus(r, application_id, status, commit_fault) ==
  /\ requests[r] = NoRequest
  /\ LET Respond(status_code) ==
           requests' = [requests EXCEPT ![r].pc = "done", ![r].status_code = status_code]
     IN  IF get_db_raises
         THEN Respond(500) /\ UNCHANGED job_applications
         ELSE IF application_id \notin DOMAIN job_applications
         THEN Respond(404) /\ UNCHANGED job_applications             \* line 509
         ELSE IF commit_fault
         THEN Respond(500) /\ UNCHANGED job_applications             \* line 539
         ELSE /\ Respond(200)
              /\ job_applications' =
                   [job_applications EXCEPT ![application_id].application_status = status]
  /\ UNCHANGED pipeline

NextEndpoints ==
  \/ \E r \in 1..MaxRequests, user_id \in Users, job_id \in DOMAIN job_listings :
       ApplyToJobQuery(r, user_id, job_id)
  \/ \E r \in 1..MaxRequests, commit_fault \in BOOLEAN : ApplyToJobCommit(r, commit_fault)
  \/ \E r \in 1..MaxRequests, application_id \in 1..(Len(job_applications) + 1),
        status \in StatusForms, commit_fault \in BOOLEAN :
       UpdateApplicationStatus(r, application_id, status, commit_fault)

SpecEndpoints == Init /\ [][NextEndpoints]_vars

(***************************************************************************)
(* The pure functions of EmailClassifier and JobMatcher, each called once  *)
(* on an argument of its domain                                            *)
(***************************************************************************)
\* email types: the taxonomy, and 'unknown' (the fallback, and the value
\* _parse_classification_response gives a reply without email_type)
ProbeTypes == EmailTypes \cup {"unknown"}

\* confidence scores, in hundredths, and the score that is not a number
ProbeConfidences == {NotANumber} \cup 0..100

\* the largest distance in days between a job and an email
MaxDays == 100

\* creation time of the job of the temporal probes, and the times of the emails
\* (up to MaxDays before and after, in steps of half a day)
ProbeJobDate == MaxDays * TicksPerDay

ProbeEmailDates == 0..(2 * MaxDays * TicksPerDay)

GleanLower == <<"g", "l", "e", "a", "n">>

GleanLlc == <<"G", "l", "e", "a", "n", " ", "l", "l", "c">>

GleanCommaInc == <<"G", "l", "e", "a", "n", ",", " ", "I", "n", "c">>

GleanDotCom == <<"g", "l", "e", "a", "n", ".", "c", "o", "m">>

AcmeCorp == <<"A", "c", "m", "e", " ", "c", "o", "r", "p">>

AcmeDotted == <<"a", ".", "c", ".", "m", ".", "e">>

ProbeCompanies ==
  {<<>>, Glean, GleanLower, GleanInc, GleanLlc, GleanCommaInc, GleanDotCom,
   Acme, AcmeCorp, AcmeDotted}

\* the rest of the state, which a call of a pure function leaves alone
world ==
  <<job_listings, job_applications, email_events, connections, session, pc, run,
    cur, last, result, fetched, database, requests, runs>>

IsJobRelated(email_type, confidence_score) ==
  /\ probe = NoProbe
  /\ probe' = [fn |-> "is_job_related",
               arg |-> [email_type |-> email_type, confidence_score |-> confidence_score],
               out |-> is_job_related(email_type, confidence_score)]
  /\ UNCHANGED world

ShouldUpdateJobStatus(email_type, confidence_score) ==
  /\ probe = NoProbe
  /\ probe' = [fn |-> "should_update_job_status",
               arg |-> [email_type |-> email_type, confidence_score |-> confidence_score],
               out |-> should_update_job_status(email_type, confidence_score)]
  /\ UNCHANGED world

GetStatusUpdateMapping(email_type) ==
  /\ probe = NoProbe
  /\ probe' = [fn |-> "get_status_update_mapping",
               arg |-> email_type,
               out |-> get_status_update_mapping(email_type)]
  /\ UNCHANGED world

CalculateTemporalScore(job_date, email_date) ==
  /\ probe = NoProbe
  /\ probe' = [fn |-> "_calculate_temporal_score",
               arg |-> [job_date |-> job_date, email_date |-> email_date],
               out |-> calculate_temporal_score(job_date, email_date)]
  /\ UNCHANGED world

MatchCompanyName(job_company, email_company) ==
  /\ probe = NoProbe
  /\ probe' = [fn |-> "_match_company_name",
               arg |-> [job_company |-> job_company, email_company |-> email_company],
               out |-> match_company_name(job_company, email_company)]
  /\ UNCHANGED world

CalculateMatchScore(job, company_name, job_title, email_date) ==
  /\ probe = NoProbe
  /\ probe' = [fn |-> "_calculate_match_score",
               arg |-> [job |-> job, company_name |-> company_name, job_title |-> job_title, email_date |-> email_date],
               out |-> calculate_match_score(job, company_name, job_title, email_date)]
  /\ UNCHANGED world

\* _update_job_status called for the EmailEvent of message m1 of user u1, whose
\* classification names 'Glean' and the title of listing 1 with confidence
\* 0.99 and has the given type; no query and no commit fails.  The event row
\* exists, so its type fits the column.  (_process_single_email calls it at
\* line 163 for the four status-bearing types only; process_specific_email
\* calls it at line 284 for the type of any stored event.)
UpdateJobStatusCall(email_type) ==
  LET classification == [email_type |-> email_type, confidence_score |-> 99,
                         company_name |-> Glean, job_title |-> SwDev]
      flushed == [email_event |-> NewEmailEvent("u1", "m1", classification),
                  state |-> "pending"]
  IN  /\ probe = NoProbe
      /\ ~DataTooLong(email_type)
      /\ UpdateJobStatus(flushed, "u1", classification, FALSE, FALSE)
      /\ probe' = [fn |-> "_update_job_status", arg |-> email_type,
                   out |-> Ret(cur'.status_updated)]
      /\ UNCHANGED <<job_listings, connections, pc, run, last, result, fetched,
                     database, requests, runs>>

NextFunctions ==
  \/ \E email_type \in ProbeTypes, confidence_score \in ProbeConfidences :
       IsJobRelated(email_type, confidence_score)
  \/ \E email_type \in ProbeTypes, confidence_score \in ProbeConfidences :
       ShouldUpdateJobStatus(email_type, confidence_score)
  \/ \E email_type \in ProbeTypes : GetStatusUpdateMapping(email_type)
  \/ \E job_date \in {NoDate, ProbeJobDate}, email_date \in {NoDate} \cup ProbeEmailDates :
       CalculateTemporalScore(job_date, email_date)
  \/ \E job_company, email_company \in ProbeCompanies :
       MatchCompanyName(job_company, email_company)
  \/ \E j \in DOMAIN JobListings, company_name \in {<<>>, Glean, Acme},
        job_title \in {<<>>, SwDev, Dba},
        email_date \in {NoDate} \cup {received_date(m) : m \in MsgIds} :
       CalculateMatchScore(JobListings[j], company_name, job_title, email_date)
  \/ \E email_type \in ProbeTypes : UpdateJobStatusCall(email_type)

SpecFunctions == Init /\ [][NextFunctions]_vars

(***************************************************************************)
(* JobAggregator.search_jobs, _deduplicate_jobs and the task               *)
(* refresh_rss_feeds_direct                                                *)
(***************************************************************************)
\* str.strip
RECURSIVE Strip(_)
Strip(s) ==
  IF s = <<>> THEN <<>>
  ELSE IF IsSpace(s[1]) THEN Strip(Tail(s))
  ELSE IF IsSpace(s[Len(s)]) THEN Strip(SubSeq(s, 1, Len(s) - 1))
  ELSE s

\* re.sub(r'[^\w\s]', '', s.lower().strip()), lines 602-604
Clean(s) == RemoveSpecial(Strip(Lower(s)))

\* the key of line 606: f"{title_clean}|{company_clean}|{location_clean}"
DedupKey(job) ==
  Clean(job.title) \o <<"|">> \o Clean(job.company) \o <<"|">> \o Clean(job.location)

\* the loop of _deduplicate_jobs: the first job of each key is kept, in order
RECURSIVE deduplicate_jobs_seen(_, _)
deduplicate_jobs_seen(jobs, seen) ==
  IF jobs = <<>> THEN <<>>
  ELSE IF DedupKey(jobs[1]) \in seen THEN deduplicate_jobs_seen(Tail(jobs), seen)
  ELSE <<jobs[1]>> \o deduplicate_jobs_seen(Tail(jobs), seen \cup {DedupKey(jobs[1])})

\* _deduplicate_jobs
deduplicate_jobs(jobs) == deduplicate_jobs_seen(jobs, {})

\* search_jobs on the jobs parsed from the feeds, in the order of the feeds:
\* deduplicated, then filtered.  The query of the task has no date_posted, so
\* _filter_jobs (lines 617-637) keeps every job.
search_jobs(all_jobs) == deduplicate_jobs(all_jobs)

\* the number of jobs the feeds hold in one refresh
MaxFeed == 2

\* the jobs a feed item can be parsed into: the same opening written 'Glean'
\* and 'glean', and an opening at another company
FeedJobs ==
  {[title |-> SwDev, company |-> c, location |-> SanFrancisco] :
     c \in {Glean, GleanLower, Acme}}

\* what the feeds may hold at a refresh
Feeds == UNION {[1..n -> FeedJobs] : n \in 0..MaxFeed}

\* the query of lines 69-73: a listing with this very title, company and
\* location (the comparison of the database, on the strings as written)
existing(listings, job) ==
  \E i \in DOMAIN listings :
    /\ listings[i].title = job.title
    /\ listings[i].company = job.company
    /\ listings[i].location = job.location

\* the row of lines 77-94
db_job(job) ==
  [company |-> job.company, title |-> job.title, created_at |-> JobCreatedAt,
   location |-> job.location, extracted_date |-> JobCreatedAt, applied |-> FALSE]

\* the loop of lines 67-98 over the jobs still to save.  The jobs come out of
\* _deduplicate_jobs, so no two of them are the same as written, and whether the
\* query sees the rows added earlier in the loop makes no difference.
RECURSIVE save_jobs(_, _, _, _)
save_jobs(jobs, listings, saved_count, duplicate_count) ==
  IF jobs = <<>>
  THEN [listings |-> listings, new_saved |-> saved_count,
        duplicates_skipped |-> duplicate_count]
  ELSE IF existing(listings, jobs[1])
       THEN save_jobs(Tail(jobs), listings, saved_count, duplicate_count + 1)
       ELSE save_jobs(Tail(jobs), Append(listings, db_job(jobs[1])),
                      saved_count + 1, duplicate_count)

\* refresh_rss_feeds_direct.  active_feeds: there is an active feed
\* configuration (line 38 returns when there is none); all_jobs: the jobs the
\* feeds hold; fault: the search or the commit raises (line 109: rollback, and
\* the exception goes on).
RefreshRssFeedsDirect(active_feeds, all_jobs, fault) ==
  /\ IF ~active_feeds
     THEN /\ probe' = [fn |-> "refresh_rss_feeds_direct",
                       arg |-> [active_feeds |-> active_feeds, all_jobs |-> all_jobs],
                       out |-> Ret(None)]
          /\ UNCHANGED job_listings
     ELSE IF fault
     THEN /\ probe' = [fn |-> "refresh_rss_feeds_direct",
                       arg |-> [active_feeds |-> active_feeds, all_jobs |-> all_jobs],
                       out |-> Raised]
          /\ UNCHANGED job_listings
     ELSE LET jobs == search_jobs(all_jobs)
              saved == save_jobs(jobs, job_listings, 0, 0)
          IN  /\ job_listings' = saved.listings
              /\ probe' = [fn |-> "refresh_rss_feeds_direct",
                           arg |-> [active_feeds |-> active_feeds, all_jobs |-> all_jobs],
                           out |-> Ret([total_found |-> Len(jobs),
                                        new_saved |-> saved.new_saved,
                                        duplicates_skipped |-> saved.duplicates_skipped])]
  /\ UNCHANGED <<job_applications, email_events, connections, session, pc, run, cur,
                 last, result, fetched, database, requests, runs>>

NextAggregator ==
  \E active_feeds \in BOOLEAN, all_jobs \in Feeds, fault \in BOOLEAN :
    RefreshRssFeedsDirect(active_feeds, all_jobs, fault)

SpecAggregator == Init /\ [][NextAggregator]_vars

(***************************************************************************)
(* JobCleanupService.cleanup_old_jobs, with the endpoints of jobs.py that  *)
(* record an application                                                   *)
(***************************************************************************)
\* datetime.utcnow() at the cleanup, in ticks: 20 days after the first listings
\* were extracted
utcnow == JobCreatedAt + 20 * TicksPerDay

\* days_old: the default of line 15, and two values the endpoint accepts
\* (jobs.py:587: ge=1, le=365)
DaysOld == {1, 5, 20}

\* the filter without the test of the applied flag (a plausible slip)
old_jobs_of_any_flag(listings, cutoff_date) ==
  {j \in DOMAIN listings : listings[j].extracted_date < cutoff_date}

\* the filter of lines 19-24
old_jobs(listings, cutoff_date) ==
  {j \in DOMAIN listings :
     /\ listings[j].extracted_date < cutoff_date
     /\ listings[j].applied = FALSE}

\* cleanup_old_jobs(days_old), as the task cleanup_old_jobs_task calls it, on a
\* session of its own.  fault: the count, the DELETE or the commit
\* raises.  The DELETE is one statement: when a row it would delete is
\* referred to by a job application and the database enforces the foreign key,
\* it raises IntegrityError and deletes nothing (line 45: rollback).
CleanupOldJobs(days_old, fault) ==
  LET cutoff_date == utcnow - days_old * TicksPerDay
      old == old_jobs(job_listings, cutoff_date)
      referenced == {j \in old : \E a \in DOMAIN job_applications :
                                   job_applications[a].job_id = j}
      Returns(status, deleted_count) ==
        probe' = [fn |-> "cleanup_old_jobs", arg |-> days_old,
                  out |-> Ret([status |-> status, deleted_count |-> deleted_count])]
  IN  /\ IF fault
         THEN Returns("error", 0) /\ UNCHANGED job_listings             \* line 45
         ELSE IF old = {}
         THEN Returns("success", 0) /\ UNCHANGED job_listings           \* line 27
         ELSE IF ForeignKeyEnforced /\ referenced # {}
         THEN Returns("error", 0) /\ UNCHANGED job_listings             \* line 45
         ELSE /\ Returns("success", Cardinality(old))                    \* line 35
              /\ job_listings' =
                   [j \in DOMAIN job_listings \ old |-> job_listings[j]]
      /\ UNCHANGED <<job_applications, email_events, connections, session, pc, run,
                     cur, last, result, fetched, database, requests, runs>>

\* update_job_status of jobs.py, lines 345-367: PUT /{job_id}/status with
\* {"applied": applied} sets the flag of the listing (500 when get_db raises,
\* 404 when there is no such listing; the response is not recorded).
UpdateJobStatusEndpoint(job_id, applied) ==
  /\ IF get_db_raises \/ job_id \notin DOMAIN job_listings
     THEN UNCHANGED job_listings                                        \* line 355
     ELSE job_listings' = [job_listings EXCEPT ![job_id].applied = applied]
  /\ UNCHANGED <<job_applications, email_events, connections, session, pc, run,
                 cur, last, result, fetched, probe, database, requests, runs>>

\* The tables before any application is recorded: the listings, and no row in
\* job_applications.
InitCleanup ==
  /\ job_listings = JobListings
  /\ job_applications = <<>>
  /\ email_events = <<>>
  /\ connections = [u \in Users |-> NoRow]
  /\ session = CleanSession
  /\ pc = "idle"
  /\ run = NoRun
  /\ cur = NoCur
  /\ last = NoLast
  /\ result = NoResult
  /\ fetched = 0
  /\ probe = NoProbe
  /\ database \in Databases
  /\ requests = [r \in 1..MaxRequests |-> NoRequest]
  /\ runs = NoRuns

NextCleanup ==
  \/ \E days_old \in DaysOld, fault \in BOOLEAN : CleanupOldJobs(days_old, fault)
  \/ \E job_id \in DOMAIN JobListings, applied \in BOOLEAN :
       UpdateJobStatusEndpoint(job_id, applied)
  \/ \E r \in 1..MaxRequests, job_id \in {1, 4} :
       \* the user applies to the oldest and to the newest listing; the
       \* requests are numbered as they arrive
       /\ \A q \in 1..(r - 1) : requests[q] # NoRequest
       /\ ApplyToJobQuery(r, "u1", job_id)
  \/ \E r \in 1..MaxRequests, commit_fault \in BOOLEAN : ApplyToJobCommit(r, commit_fault)

SpecCleanup == InitCleanup /\ [][NextCleanup]_vars

(***************************************************************************)
(* EmailProcessor.process_specific_email, lines 261-300: the manual        *)
(* reprocessing of a stored EmailEvent, between the runs of the batch      *)
(***************************************************************************)
\* process_specific_email(email_event_id).  The events of the table were
\* stored by _process_single_email with the classification as ai_data, which
\* always holds an email_type, so the re-classification of lines 271-281 is not
\* entered.  _update_job_status is called with the stored classification (line
\* 284); should_update_job_status is not consulted.  The request is made once,
\* when no run is under way and the mailbox has nothing more to hand out.
ProcessSpecificEmail(email_event_id, match_fault, update_fault) ==
  /\ pc = "idle"
  /\ fetched = MaxEmails
  /\ probe.fn = "none"
  /\ IF email_event_id \notin DOMAIN email_events
     THEN /\ probe' = [fn |-> "process_specific_email", arg |-> email_event_id,
                       out |-> Ret([success |-> FALSE, status_updated |-> FALSE])]   \* line 268
          /\ UNCHANGED <<job_applications, email_events, session, cur>>
     ELSE /\ UpdateJobStatus([email_event |-> email_events[email_event_id],
                              state |-> "persistent"],
                             email_events[email_event_id].user_id,
                             email_events[email_event_id].ai_data,
                             match_fault, update_fault)
          /\ probe' = [fn |-> "process_specific_email", arg |-> email_event_id,
                       out |-> Ret([success |-> TRUE,
                                    status_updated |-> cur'.status_updated])]
  /\ UNCHANGED <<job_listings, connections, pc, run, last, result, fetched, database,
                 requests, runs>>

NextReprocess ==
  \/ Next
  \/ \E email_event_id \in 1..MaxEmails, match_fault, update_fault \in BOOLEAN :
       ProcessSpecificEmail(email_event_id, match_fault, update_fault)

SpecReprocess == Init /\ [][NextReprocess]_vars

(***************************************************************************)
(* The batch pipeline after apply_to_job: user u1 applies to listing 3 in  *)
(* two requests, then two emails about that opening arrive                 *)
(***************************************************************************)
\* what the LLM answers for the emails about the opening of listing 3
ClosedReplies ==
  {Reply("object", AllFields, "offer_letter", 99, Glean, Dba),
   Reply("object", AllFields, "interview_invitation", 99, Glean, Dba)}

\* the batches of the run: m1 and m3, both received within a day of the
\* creation of the listing
ClosedBatches == {<<"m1">>, <<"m3">>, <<"m1", "m3">>}

NextClosed ==
  \/ \E r \in 1..MaxRequests :
       \* the requests come in before the first run
       /\ pc = "idle" /\ fetched = 0
       /\ ApplyToJobQuery(r, "u1", 3)
  \/ \E r \in 1..MaxRequests, commit_fault \in BOOLEAN :
       /\ pc = "idle" /\ fetched = 0
       /\ ApplyToJobCommit(r, commit_fault)
  \/ \E emails \in ClosedBatches, refresh_result \in refresh_access_token("r1") :
       /\ fetched + Len(emails) <= MaxEmails
       /\ StartRun("u1", emails, refresh_result, FALSE)
  \/ \E llm \in ClosedReplies, fault \in Faults : ProcessSingleEmail(llm, fault)
  \/ \E commit_fault \in BOOLEAN : MarkProcessed(commit_fault)
  \/ \E commit_fault \in BOOLEAN : FinishRun(commit_fault)

SpecClosed == Init /\ [][NextClosed]_vars

(***************************************************************************)
(* Two runs of process_user_emails for user u1 that overlap, each with its *)
(* own session: every database call is a step, and a run sees what the     *)
(* others have committed                                                   *)
(***************************************************************************)
\* The batch of a run is one message; the two runs may have fetched the same
\* message or different ones.
\* Another session has inserted an EmailEvent with this message id and not yet
\* committed or rolled back: the INSERT of this session waits for it (the
\* unique index on email_message_id).
InsertWaits(p) ==
  \E q \in RunIds \ {p} :
    /\ runs[q].session.state = "pending"
    /\ runs[q].email = runs[p].email

\* the run ends its email with this return value of _process_single_email
ConcurrentEnd(p, classification, processed, status_updated, exception, mutated) ==
  runs' = [runs EXCEPT ![p] =
             [@ EXCEPT !.pc = "stats", !.session = CleanSession,
                       !.classification = classification,
                       !.processed = processed, !.status_updated = status_updated,
                       !.exception = exception, !.mutated = mutated]]

\* lines 28-67: the connection, the token refresh, the fetch
ConcurrentStart(p, email_message_id, refresh_result, commit_fault) ==
  /\ runs[p].pc = "new"
  /\ LET connection == connections["u1"]
         Fails == /\ runs' = [runs EXCEPT ![p].pc = "done"]
                  /\ UNCHANGED connections
     IN  IF ~connection.is_authorized THEN Fails                          \* line 34
         ELSE IF is_token_expired(connection) /\ refresh_result.status # "success"
         THEN Fails                                                        \* line 45
         ELSE IF is_token_expired(connection) /\ commit_fault
         THEN Fails                                                        \* line 97
         ELSE /\ connections' =
                   IF is_token_expired(connection)
                   THEN [connections EXCEPT                                \* lines 54-56
                           !["u1"].access_token = refresh_result.access_token,
                           !["u1"].token_expiry = refresh_result.token_expiry]
                   ELSE connections
              /\ runs' = [runs EXCEPT ![p].pc = "check",
                                      ![p].email = email_message_id]
  /\ UNCHANGED <<job_listings, job_applications, email_events, session, pc, run, cur,
                 last, result, fetched, probe, database, requests>>

\* lines 112-118: the query for an EmailEvent with the message id
ConcurrentCheck(p) ==
  /\ runs[p].pc = "check"
  /\ IF ExistingEvent(email_events, runs[p].email)
     THEN ConcurrentEnd(p, FallbackClassification, FALSE, FALSE, FALSE, 0)
     ELSE runs' = [runs EXCEPT ![p].pc = "classify"]
  /\ UNCHANGED <<job_listings, job_applications, email_events, connections, session,
                 pc, run, cur, last, result, fetched, probe, database, requests>>

\* lines 126-155: the classification and the INSERT of the EmailEvent (flush)
ConcurrentFlush(p, llm, fault) ==
  /\ runs[p].pc = "classify"
  /\ LET classified == classify_email(llm)
         classification == classified.val
         job_related == is_job_related(classification.email_type,
                                       classification.confidence_score)
         should_update == should_update_job_status(classification.email_type,
                                                   classification.confidence_score)
         flushed == [email_event |->
                       NewEmailEvent("u1", runs[p].email, classification),
                     state |-> "pending"]
     IN  IF classified.exc
         THEN ConcurrentEnd(p, FallbackClassification, FALSE, FALSE, TRUE, 0)
         ELSE IF job_related.exc
         THEN ConcurrentEnd(p, classification, FALSE, FALSE, TRUE, 0)     \* line 181
         ELSE IF ~job_related.val
         THEN ConcurrentEnd(p, classification, FALSE, FALSE, FALSE, 0)    \* line 132
         ELSE /\ ~InsertWaits(p)
              /\ IF \/ fault
                    \/ UniqueViolation(email_events, runs[p].email)
                    \/ DataTooLong(classification.email_type)
                    \/ should_update.exc
                 THEN ConcurrentEnd(p, classification, FALSE, FALSE, TRUE, 0)
                 ELSE runs' = [runs EXCEPT ![p] =
                                 [@ EXCEPT !.pc = IF should_update.val
                                                  THEN "update" ELSE "mark",
                                           !.session = flushed,
                                           !.classification = classification]]
  /\ UNCHANGED <<job_listings, job_applications, email_events, connections, session,
                 pc, run, cur, last, result, fetched, probe, database, requests>>

\* lines 159-165: _update_job_status in the session of the run
ConcurrentUpdate(p, match_fault, update_fault) ==
  /\ runs[p].pc = "update"
  /\ UpdateJobStatus(runs[p].session, "u1", runs[p].classification,
                     match_fault, update_fault)
  /\ runs' = [runs EXCEPT ![p] =
                [@ EXCEPT !.pc = "mark", !.session = session',
                          !.status_updated = cur'.status_updated,
                          !.mutated = cur'.mutated]]
  /\ UNCHANGED <<job_listings, connections, pc, run, last, result, fetched, probe,
                 database, requests>>

\* lines 167-184: processed_at, status_updated and the commit
ConcurrentMark(p, commit_fault) ==
  /\ runs[p].pc = "mark"
  /\ LET sess == runs[p].session
         marked == [sess.email_event EXCEPT
                      !.processed_at = TRUE,
                      !.status_updated = runs[p].status_updated]
         row == CHOOSE e \in DOMAIN email_events :
                  email_events[e].email_message_id = runs[p].email
     IN  IF commit_fault
         THEN /\ ConcurrentEnd(p, runs[p].classification, FALSE, FALSE, TRUE,
                               runs[p].mutated)
              /\ UNCHANGED email_events
         ELSE /\ ConcurrentEnd(p, runs[p].classification, TRUE,
                               runs[p].status_updated, FALSE, runs[p].mutated)
              /\ email_events' =
                   CASE sess.state = "pending" -> Append(email_events, marked)
                     [] sess.state = "persistent" ->
                          [email_events EXCEPT ![row] = marked]
                     [] OTHER -> email_events
  /\ UNCHANGED <<job_listings, job_applications, connections, session, pc, run, cur,
                 last, result, fetched, probe, database, requests>>

\* lines 86-87: connection.total_emails_processed += processed_count reads the
\* attribute, which the last commit of the session has expired: the row is
\* loaded again
ConcurrentStats(p) ==
  /\ runs[p].pc = "stats"
  /\ runs' = [runs EXCEPT ![p].pc = "finish",
                          ![p].total = connections["u1"].total_emails_processed]
  /\ UNCHANGED <<job_listings, job_applications, email_events, connections, session,
                 pc, run, cur, last, result, fetched, probe, database, requests>>

\* lines 88-104: the commit writes the sum that was computed in the process;
\* with nothing processed the attribute keeps its value and is not written
ConcurrentFinish(p, commit_fault) ==
  /\ runs[p].pc = "finish"
  /\ IF commit_fault
     THEN /\ runs' = [runs EXCEPT ![p].pc = "done"]                       \* line 97
          /\ UNCHANGED connections
     ELSE /\ connections' =
               [connections EXCEPT
                  !["u1"].last_sync_at = @ + 1,
                  !["u1"].total_emails_processed =
                     IF runs[p].processed THEN runs[p].total + 1 ELSE @]
          /\ runs' = [runs EXCEPT ![p].pc = "done", ![p].success = TRUE]
  /\ UNCHANGED <<job_listings, job_applications, email_events, session, pc, run, cur,
                 last, result, fetched, probe, database, requests>>

NextConcurrent ==
  \/ \E p \in RunIds, email_message_id \in MsgIds,
        refresh_result \in refresh_access_token("r1"), commit_fault \in BOOLEAN :
       ConcurrentStart(p, email_message_id, refresh_result, commit_fault)
  \/ \E p \in RunIds : ConcurrentCheck(p)
  \/ \E p \in RunIds, llm \in LLMReplies, fault \in BOOLEAN : ConcurrentFlush(p, llm, fault)
  \/ \E p \in RunIds, match_fault, update_fault \in BOOLEAN :
       ConcurrentUpdate(p, match_fault, update_fault)
  \/ \E p \in RunIds, commit_fault \in BOOLEAN : ConcurrentMark(p, commit_fault)
  \/ \E p \in RunIds : ConcurrentStats(p)
  \/ \E p \in RunIds, commit_fault \in BOOLEAN : ConcurrentFinish(p, commit_fault)

SpecConcurrent == Init /\ [][NextConcurrent]_vars

(***************************************************************************)
(* Properties                                                              *)
(***************************************************************************)

\* C1: processing is idempotent per message id.  No two EmailEvent rows ever
\* share a message id, and a call of _process_single_email for a message id
\* that already has a row is a skip: it returns processed = false without an
\* exception, writes no row, changes no application and counts nothing.
C1_IdempotentPerMessageId ==
  /\ [](\A e1, e2 \in DOMAIN email_events :
          email_events[e1].email_message_id = email_events[e2].email_message_id
            => e1 = e2)
  /\ [][(/\ pc = "email"
         /\ \E e \in DOMAIN email_events :
              email_events[e].email_message_id = run.emails[run.idx])
        => /\ email_events' = email_events
           /\ job_applications' = job_applications
           /\ last'.email_message_id = run.emails[run.idx]
           /\ ~last'.processed /\ ~last'.status_updated /\ ~last'.exception
           /\ run'.idx = run.idx + 1
           /\ run'.processed_count = run.processed_count
           /\ run'.status_updates = run.status_updates]_vars

\* the last call was a skip without an exception of a message that has a
\* processed row
C1_Witness ==
  /\ last.email_message_id # "none"
  /\ ~last.processed /\ ~last.exception
  /\ \E e \in DOMAIN email_events :
       /\ email_events[e].email_message_id = last.email_message_id
       /\ email_events[e].processed_at

\* C2: in the batch path a JobApplication changes only in a step of
\* _process_single_email whose classification passes should_update_job_status
\* (one of the four status types, confidence at least 0.7), whose matcher
\* returned a job, and whose match score is at least 0.8; the application that
\* changes is the one of the user for the matched job.
C2_MutationOnlyWhenGated ==
  [][job_applications' # job_applications
       => /\ pc = "email" /\ pc' = "mark"
          /\ cur'.classification.email_type \in
               {"application_confirmation", "application_rejection",
                "interview_invitation", "offer_letter"}
          /\ cur'.classification.confidence_score >= 70
          /\ cur'.matching = "returned"
          /\ cur'.match.job_id # 0
          /\ 10 * cur'.match.score.n >= 8 * cur'.match.score.d
          /\ \A a \in DOMAIN job_applications :
               job_applications'[a] # job_applications[a]
                 => /\ job_applications[a].user_id = run.user_id
                    /\ job_applications[a].job_id = cur'.match.job_id]_vars

\* an email has just changed the status of an application
C2_Witness ==
  /\ pc = "mark"
  /\ cur.status_updated
  /\ cur.mutated # 0
  /\ job_applications[cur.mutated].application_status # "interested"

C4_BestOpenCandidateOrNone ==
  [][(pc = "email" /\ pc' = "mark" /\ cur'.matching = "returned")
       => LET c == cur'.classification
              m == cur'.match
              open == {a \in DOMAIN job_applications :
                         /\ job_applications[a].user_id = run.user_id
                         /\ job_applications[a].application_status \in
                              {"interested", "applied", "interviewed"}}
              score(a) == MatchScores[job_listings[job_applications[a].job_id],
                                      c.company_name, c.job_title,
                                      received_date(run.emails[run.idx])]
              passes(a) == 10 * score(a).n >= 6 * score(a).d
          IN  IF \E a \in open : passes(a)
              THEN \E a \in open :
                     /\ m.job_id = job_applications[a].job_id
                     /\ m.score = score(a)
                     /\ passes(a)
                     /\ \A b \in open : score(a).n * score(b).d >= score(b).n * score(a).d
              ELSE m.job_id = 0]_vars

\* the matcher returned a job although another open application of the user
\* and an application of another user were there to choose from
C4_Witness ==
  /\ pc = "mark"
  /\ cur.matching = "returned"
  /\ cur.match.job_id # 0
  /\ \E a, b \in DOMAIN job_applications :
       /\ job_applications[a].user_id = run.user_id
       /\ job_applications[a].job_id # cur.match.job_id
       /\ job_applications[a].application_status \in OpenStatuses
       /\ job_applications[b].user_id # run.user_id

\* C5: an exception while one email is processed only skips that email.  Every
\* call of _process_single_email ends with the loop at the next email of the
\* same batch (or past the last one), an email that raised counts as not
\* processed, the loop ends only after the last email, and the run returns
\* success exactly when its final statistics were committed.
C5_ExceptionSkipsOneEmail ==
  /\ [](pc = "finish" => run.idx = Len(run.emails) + 1)
  /\ [][(pc \in {"email", "mark"} /\ pc' # "mark")
          => /\ run'.emails = run.emails
             /\ run'.idx = run.idx + 1
             /\ pc' = IF run.idx < Len(run.emails) THEN "email" ELSE "finish"
             /\ last'.email_message_id = run.emails[run.idx]
             /\ last'.exception
                  => /\ ~last'.processed /\ ~last'.status_updated
                     /\ run'.processed_count = run.processed_count
                     /\ run'.status_updates = run.status_updates]_vars
  /\ [][pc = "finish"
          => /\ pc' = "idle"
             /\ result'.success
                  <=> connections'[run.user_id].last_sync_at
                        # connections[run.user_id].last_sync_at]_vars

\* the first email of a batch raised at its last commit (its row is left
\* without processed_at), the second email was processed, the loop is over
C5_Witness ==
  /\ pc = "finish"
  /\ Len(run.emails) = 2
  /\ run.emails[1] # run.emails[2]
  /\ last.email_message_id = run.emails[2]
  /\ last.processed
  /\ run.processed_count = 1
  /\ \E e \in DOMAIN email_events :
       /\ email_events[e].email_message_id = run.emails[1]
       /\ ~email_events[e].processed_at

\* C6: the writes of one email are committed atomically: between two emails
\* the database never holds an EmailEvent row without its processed_at, nor an
\* application changed by an email whose row does not say status_updated.
C6_WritesOfAnEmailAtomic ==
  pc # "mark" =>
    /\ \A e \in DOMAIN email_events : email_events[e].processed_at
    /\ last.mutated # 0 =>
         \E e \in DOMAIN email_events :
           /\ email_events[e].email_message_id = last.email_message_id
           /\ email_events[e].status_updated

\* C7: whenever _process_single_email returns processed = true, the database
\* holds the EmailEvent of that message, with processed_at set and
\* status_updated telling whether an application was changed.
C7_ProcessedHasDurableEvent ==
  last.processed =>
    \E e \in DOMAIN email_events :
      /\ email_events[e].email_message_id = last.email_message_id
      /\ email_events[e].processed_at
      /\ email_events[e].status_updated = last.status_updated
      /\ email_events[e].status_updated <=> last.mutated # 0

\* C8: classify_email never raises.  Whatever the LLM answers, it returns a
\* classification with the four fields; when the API call fails or the answer
\* is not JSON, the classification is the fallback (type 'unknown', confidence
\* 0.0), which is not job related.
C8_ClassifyNeverRaises ==
  probe.fn = "classify_email" =>
    /\ ~probe.out.exc
    /\ DOMAIN probe.out.val =
         {"email_type", "confidence_score", "company_name", "job_title"}
    /\ probe.arg.kind \in {"api_error", "malformed"} =>
         /\ probe.out.val.email_type = "unknown"
         /\ probe.out.val.confidence_score = 0
         /\ is_job_related(probe.out.val.email_type, probe.out.val.confidence_score)
              = [exc |-> FALSE, val |-> FALSE]

\* classify_email was called and the API call failed
C8_Witness ==
  /\ probe.fn = "classify_email"
  /\ probe.arg.kind = "api_error"
  /\ probe.out.val.email_type = "unknown"

\* C9: an expired access token is refreshed before any email is fetched: a
\* run that gets to its emails has a connection whose token is not expired,
\* and whose token is a new one when the old one had expired.  A run whose
\* refresh failed returns success = false with zero emails processed, and
\* changes no email event, no application and no connection.
C9_RefreshBeforeFetch ==
  [][pc = "idle"
       => /\ (pc' = "email" \/ fetched' # fetched)
               => \E u \in Users :
                    /\ pc' = "email" => u = run'.user_id
                    /\ connections[u] # NoRow
                    /\ connections'[u].token_expiry = "future"
                    /\ connections[u].token_expiry # "future"
                         => connections'[u].access_token # connections[u].access_token
          /\ result'.message = "Failed to refresh Gmail token"
               => /\ ~result'.success
                  /\ result'.emails_processed = 0
                  /\ result'.status_updates = 0
                  /\ pc' = "idle"
                  /\ fetched' = fetched
                  /\ UNCHANGED <<email_events, job_applications, connections>>]_vars

\* a run found the token expired and could not refresh it
C9_Witness ==
  /\ result.message = "Failed to refresh Gmail token"
  /\ pc = "idle"
  /\ connections["u1"].token_expiry # "future"
  /\ connections["u1"].access_token = "t1"

\* the stages of an application, in the order of the funnel
StageOf(status) ==
  CASE status = "interested" -> 0
    [] status = "applied" -> 1
    [] status = "interviewed" -> 2
    [] OTHER -> 3

\* C10: the email pipeline moves the status of an application forward only: no
\* step sets an application back to an earlier stage.
C10_StatusNeverMovesBack ==
  [][\A a \in DOMAIN job_applications :
       StageOf(job_applications'[a].application_status)
         >= StageOf(job_applications[a].application_status)]_vars

\* C11: at most one JobApplication row exists for a user and a job, after any
\* apply requests, concurrent ones included.
C11_OneApplicationPerUserAndJob ==
  \A a, b \in DOMAIN job_applications :
    (/\ job_applications[a].user_id = job_applications[b].user_id
     /\ job_applications[a].job_id = job_applications[b].job_id) => a = b

\* C19: the application_status of every JobApplication is one of interested,
\* applied, interviewed, rejected, hired.
C19_StatusInEnum ==
  \A a \in DOMAIN job_applications :
    job_applications[a].application_status \in
      {"interested", "applied", "interviewed", "rejected", "hired"}

\* C12: when an email that is not yet recorded is classified as
\* application_confirmation with confidence at least 0.7 for the company Glean,
\* and its user has an open application at a job whose company normalizes to
\* glean, the matcher returns such a job with a score of at least 0.6 and the
\* step sets that application to applied.
C12_GleanConfirmationApplies ==
  [][(/\ pc = "email"
      /\ cur'.classification.email_type = "application_confirmation"
      /\ cur'.classification.confidence_score >= 70
      /\ cur'.classification.company_name = Glean
      /\ cur'.classification.job_title = SwDev
      /\ \A e \in DOMAIN email_events :
           email_events[e].email_message_id # run.emails[run.idx]
      /\ \E a \in DOMAIN job_applications :
           /\ job_applications[a].user_id = run.user_id
           /\ job_applications[a].application_status \in
                {"interested", "applied", "interviewed"}
           /\ normalize_company_name(job_listings[job_applications[a].job_id].company)
                = <<"g", "l", "e", "a", "n">>)
       => \E a \in DOMAIN job_applications :
            /\ job_applications[a].user_id = run.user_id
            /\ normalize_company_name(job_listings[job_applications[a].job_id].company)
                 = <<"g", "l", "e", "a", "n">>
            /\ cur'.match.job_id = job_applications[a].job_id
            /\ 10 * cur'.match.score.n >= 6 * cur'.match.score.d
            /\ job_applications'[a].application_status = "applied"]_vars

\* C13 (as the code has it): for a numeric confidence, is_job_related is true
\* exactly when the confidence is at least 0.6 and the type is one of
\* application_confirmation, application_rejection, interview_invitation,
\* offer_letter, status_update; it is false below 0.6 whatever the type, and
\* false for not_job_related and for unknown at any confidence.
C13_JobRelatedIffListedTypeAtSixty ==
  (probe.fn = "is_job_related" /\ probe.arg.confidence_score # NotANumber) =>
    probe.out =
      Ret(/\ probe.arg.confidence_score >= 60
          /\ probe.arg.email_type \in
               {"application_confirmation", "application_rejection",
                "interview_invitation", "offer_letter", "status_update"})

\* C13 as stated: is_job_related is true exactly when the confidence is at
\* least 0.6 and the type is not not_job_related.
C13_JobRelatedIffNotNotJobRelated ==
  (probe.fn = "is_job_related" /\ probe.arg.confidence_score # NotANumber) =>
    probe.out =
      Ret(/\ probe.arg.confidence_score >= 60
          /\ probe.arg.email_type # "not_job_related")

\* is_job_related was asked about the type 'unknown' at confidence 0.99, and
\* said no
C13_Witness ==
  /\ probe.fn = "is_job_related"
  /\ probe.arg = [email_type |-> "unknown", confidence_score |-> 99]
  /\ probe.out = Ret(FALSE)

\* C14: should_update_job_status is true for every confidence of at least 0.7
\* when the type is one of application_confirmation, application_rejection,
\* interview_invitation, offer_letter, and false for every other type and for
\* every confidence below 0.7.
C14_UpdateIffStatusTypeAtSeventy ==
  (probe.fn = "should_update_job_status" /\ probe.arg.confidence_score # NotANumber) =>
    probe.out =
      Ret(/\ probe.arg.confidence_score >= 70
          /\ probe.arg.email_type \in
               {"application_confirmation", "application_rejection",
                "interview_invitation", "offer_letter"})

\* should_update_job_status was asked about an offer letter at exactly 0.7, and
\* said yes
C14_Witness ==
  /\ probe.fn = "should_update_job_status"
  /\ probe.arg = [email_type |-> "offer_letter", confidence_score |-> 70]
  /\ probe.out = Ret(TRUE)

\* C16: the temporal score of a job and an email is 1.0 when they are at most
\* a day apart, and for a distance of a whole number of days it is 1.0 up to
\* 1 day, 0.9 up to 7, 0.7 up to 30, 0.5 up to 90 and 0.2 beyond (0.2 at 95
\* days; the scores below are in tenths), whichever of the two is the earlier; for a distance between two whole
\* numbers of days it is the score of one of them.
C16_TemporalBuckets ==
  (/\ probe.fn = "_calculate_temporal_score"
   /\ probe.arg.job_date # NoDate
   /\ probe.arg.email_date # NoDate) =>
    LET Bucket(days) ==
          CASE days <= 1 -> 10
            [] days > 1 /\ days <= 7 -> 9
            [] days > 7 /\ days <= 30 -> 7
            [] days > 30 /\ days <= 90 -> 5
            [] OTHER -> 2
        distance == IF probe.arg.email_date >= probe.arg.job_date
                    THEN probe.arg.email_date - probe.arg.job_date
                    ELSE probe.arg.job_date - probe.arg.email_date
        below == distance \div TicksPerDay
        above == (distance + TicksPerDay - 1) \div TicksPerDay
    IN  /\ probe.out.d * Bucket(below) = 10 * probe.out.n
           \/ probe.out.d * Bucket(above) = 10 * probe.out.n
        /\ distance <= TicksPerDay => probe.out = [n |-> 1, d |-> 1]
        /\ distance = 95 * TicksPerDay => probe.out = [n |-> 1, d |-> 5]

\* an email received 95 days after the job was created scored 0.2
C16_Witness ==
  /\ probe.fn = "_calculate_temporal_score"
  /\ probe.arg.job_date # NoDate
  /\ probe.arg.email_date = probe.arg.job_date + 95 * TicksPerDay
  /\ probe.out = [n |-> 1, d |-> 5]

\* C17: for every pair of company names (neither of them empty) that are
\* identical after normalization, _match_company_name returns 1.0.
C17_SameAfterNormalizationScoresOne ==
  (/\ probe.fn = "_match_company_name"
   /\ probe.arg.job_company # <<>>
   /\ probe.arg.email_company # <<>>
   /\ normalize_company_name(probe.arg.job_company)
        = normalize_company_name(probe.arg.email_company)) =>
    probe.out = [n |-> 1, d |-> 1]

\* 'Glean, Inc' and 'glean' were compared, and scored 1.0
C17_Witness ==
  /\ probe.fn = "_match_company_name"
  /\ probe.arg = [job_company |-> GleanCommaInc, email_company |-> GleanLower]
  /\ probe.out = [n |-> 1, d |-> 1]

\* C18: the match score is 0.4 * company similarity + 0.3 * title similarity
\* + 0.2 * temporal proximity + 0.1 * location score (a term whose input is
\* missing counts 0), at most 1.0; it lies in [0, 1]; it is 0 when the email
\* carries no company name.
C18_WeightedSumClamped ==
  probe.fn = "_calculate_match_score" =>
    LET job == probe.arg.job
        c == match_company_name(job.company, probe.arg.company_name)
        t == IF probe.arg.job_title # <<>> /\ job.title # <<>>
             THEN match_job_title(job.title, probe.arg.job_title)
             ELSE [n |-> 0, d |-> 1]
        p == IF probe.arg.email_date # NoDate /\ job.created_at # NoDate
             THEN calculate_temporal_score(job.created_at, probe.arg.email_date)
             ELSE [n |-> 0, d |-> 1]
        l == IF job.location # <<>>
             THEN match_location(job.location, probe.arg.company_name)
             ELSE [n |-> 0, d |-> 1]
        tenths == 4 * c.n * t.d * p.d * l.d + 3 * t.n * c.d * p.d * l.d
                  + 2 * p.n * c.d * t.d * l.d + l.n * c.d * t.d * p.d
        whole == c.d * t.d * p.d * l.d
    IN  /\ probe.out.d > 0 /\ probe.out.n >= 0 /\ probe.out.n <= probe.out.d
        /\ IF probe.arg.company_name = <<>> THEN probe.out.n = 0
           ELSE IF tenths >= 10 * whole THEN probe.out.n = probe.out.d
           ELSE probe.out = Frac(tenths, 10 * whole)

\* a job of 'Glean Inc', 'Software Engineer, Backend' and an email naming
\* 'Glean' and the same title scored above 0.8 and below 1
C18_Witness ==
  /\ probe.fn = "_calculate_match_score"
  /\ probe.arg.company_name = Glean
  /\ probe.arg.job_title = SwDev
  /\ probe.arg.job.title = SwDev
  /\ probe.arg.email_date # NoDate
  /\ 5 * probe.out.n > 4 * probe.out.d
  /\ probe.out.n < probe.out.d

\* C15: the status mapping is the table application_confirmation -> applied,
\* application_rejection -> rejected, interview_invitation -> interviewed,
\* offer_letter -> hired, and nothing for every other type.  A call of
\* _update_job_status for an email whose job is found with a score of at least
\* 0.8 sets the application of that job to the status of the table when the
\* type is one of the four, and changes no application when it is any other.
C15_StatusMappingIsTheTable ==
  [][LET Mapping(t) ==
           CASE t = "application_confirmation" -> "applied"
             [] t = "application_rejection" -> "rejected"
             [] t = "interview_invitation" -> "interviewed"
             [] t = "offer_letter" -> "hired"
             [] OTHER -> None
         mapped == {"application_confirmation", "application_rejection",
                    "interview_invitation", "offer_letter"}
     IN  /\ probe'.fn = "get_status_update_mapping" =>
               probe'.out = Mapping(probe'.arg)
         /\ (probe'.fn = "_update_job_status" /\ probe'.arg \in mapped) =>
               /\ probe'.out = Ret(TRUE)
               /\ cur'.match.job_id = job_applications[cur'.mutated].job_id
               /\ job_applications' =
                    [job_applications EXCEPT
                       ![cur'.mutated].application_status = Mapping(probe'.arg)]
         /\ (probe'.fn = "_update_job_status" /\ probe'.arg \notin mapped) =>
               /\ probe'.out = Ret(FALSE)
               /\ job_applications' = job_applications]_vars

\* _update_job_status was called for an offer letter and set the application
\* of the matched job to hired
C15_Witness ==
  /\ probe.fn = "_update_job_status"
  /\ probe.arg = "offer_letter"
  /\ probe.out = Ret(TRUE)
  /\ cur.match.job_id = 1
  /\ job_applications[cur.mutated].application_status = "hired"

\* C20: after any sequence of RSS refresh runs the job-listing table holds no
\* two rows whose title, company and location are equal after normalization
\* (lower case, punctuation removed).
C20_NoTwoRowsWithOneKey ==
  \A i, j \in DOMAIN job_listings :
    DedupKey(job_listings[i]) = DedupKey(job_listings[j]) => i = j


\* C21: the cleanup deletes a listing only if it is older than days_old days
\* and unapplied.  Only cleanup_old_jobs removes listings, and every listing
\* it removes was extracted more than days_old days before the cleanup, has
\* its applied flag unset, and has no job application recorded by
\* apply_to_job.
C21_CleanupDeletesOnlyOldUnapplied ==
  [][\A j \in DOMAIN job_listings \ DOMAIN job_listings' :
       /\ probe'.fn = "cleanup_old_jobs"
       /\ job_listings[j].extracted_date < utcnow - probe'.arg * TicksPerDay
       /\ job_listings[j].applied = FALSE
       /\ \A a \in DOMAIN job_applications : job_applications[a].job_id # j]_vars

\* Listing 2 was deleted by a cleanup; listing 1, as old as listing 2 and with
\* its applied flag unset, has an application recorded by apply_to_job and is
\* still there after the last cleanup, which deleted nothing.
C21_Witness ==
  /\ probe.fn = "cleanup_old_jobs"
  /\ probe.out.val.deleted_count = 0
  /\ 2 \notin DOMAIN job_listings
  /\ 1 \in DOMAIN job_listings
  /\ job_listings[1].applied = FALSE
  /\ job_listings[1].extracted_date < utcnow - probe.arg * TicksPerDay
  /\ \E a \in DOMAIN job_applications :
       /\ job_applications[a].job_id = 1
       /\ job_applications[a].application_status = "applied"

\* C22: the persisted EmailEvent records the matched job.  A row of
\* email_events whose status_updated is set holds in matched_job_listing_id
\* the id of a listing for which the user of the event has an application, and
\* a row whose status_updated is unset holds none.
C22_EventRecordsMatchedJob ==
  \A e \in DOMAIN email_events :
    IF email_events[e].status_updated
    THEN \E a \in DOMAIN job_applications :
           /\ job_applications[a].user_id = email_events[e].user_id
           /\ job_applications[a].job_id = email_events[e].matched_job_listing_id
    ELSE email_events[e].matched_job_listing_id = 0

\* C23: an email that fails is_job_related is ignored.  When the
\* classification of the email at hand has a type outside the five job-related
\* types, or a confidence below 0.6 (a failed classification is 'unknown' with
\* confidence 0), the call of _process_single_email creates no EmailEvent,
\* changes no application, returns processed = false and status_updated =
\* false, counts nothing, and leaves the listings and the connections alone.
C23_NotJobRelatedIsIgnored ==
  [][(/\ pc = "email"
      /\ \/ cur'.classification.email_type \notin
              {"application_confirmation", "application_rejection",
               "interview_invitation", "offer_letter", "status_update"}
         \/ /\ cur'.classification.confidence_score # NotANumber
            /\ cur'.classification.confidence_score < 60)
     => /\ email_events' = email_events
        /\ job_applications' = job_applications
        /\ job_listings' = job_listings
        /\ connections' = connections
        /\ session' = CleanSession
        /\ pc' # "mark"
        /\ last'.email_message_id = CurrentEmail
        /\ ~last'.processed /\ ~last'.status_updated
        /\ run'.processed_count = run.processed_count
        /\ run'.status_updates = run.status_updates]_vars

\* an interview invitation with confidence 0.59, company and title those of an
\* open application of the user, was ignored: no event, no exception
C23_Witness ==
  /\ cur.classification.email_type = "interview_invitation"
  /\ cur.classification.confidence_score = 59
  /\ last.email_message_id # "none"
  /\ ~last.processed /\ ~last.exception
  /\ email_events = <<>>
  /\ \E a \in DOMAIN job_applications :
       /\ job_applications[a].user_id = run.user_id
       /\ job_applications[a].job_id = 1
       /\ job_applications[a].application_status = "interested"

\* C24: every email of a batch reaches exactly one terminal outcome and the
\* result of the run counts them.  Each call of _process_single_email that
\* ends is exactly one of: already processed (a row was there, nothing
\* written), ignored (no row before or after), failed and skipped (an
\* exception, not processed), persisted without update (processed, a row for
\* the message, no application changed), persisted with update (processed, a
\* row for the message, an application changed); and the run returns the
\* counters of its loop as emails_processed and status_updates.
C24_EachEmailOneOutcomeCounted ==
  /\ [][(pc \in {"email", "mark"} /\ pc' # "mark")
          => LET had == ExistingEvent(email_events, CurrentEmail)
                 has == ExistingEvent(email_events', CurrentEmail)
                 outcomes ==
                   <<pc = "email" /\ had /\ ~last'.processed /\ ~last'.exception
                       /\ email_events' = email_events,
                     pc = "email" /\ ~had /\ ~has /\ ~last'.processed
                       /\ ~last'.exception,
                     last'.exception /\ ~last'.processed,
                     last'.processed /\ ~last'.status_updated /\ has
                       /\ last'.mutated = 0,
                     last'.processed /\ last'.status_updated /\ has
                       /\ last'.mutated # 0>>
             IN  Cardinality({o \in DOMAIN outcomes : outcomes[o]}) = 1]_vars
  /\ [][pc = "finish"
          => /\ result'.emails_processed = run.processed_count
             /\ result'.status_updates = run.status_updates]_vars

\* C25: the temporal score depends only on the distance between the two
\* timestamps.  Whatever _calculate_temporal_score returns for a job date and
\* an email date, it returns for the two dates exchanged.
C25_TemporalScoreSymmetric ==
  probe.fn = "_calculate_temporal_score"
    => probe.out = calculate_temporal_score(probe.arg.email_date, probe.arg.job_date)

\* C26: manual reprocessing applies the gates of batch processing.  A call of
\* process_specific_email changes an application only if the type and the
\* confidence stored in the event satisfy should_update_job_status (one of
\* the four status-bearing types, confidence at least 0.7) and the match score
\* is at least 0.8.
C26_ReprocessAppliesTheGates ==
  [][(pc = "idle" /\ job_applications' # job_applications)
      => /\ probe'.fn = "process_specific_email"
         /\ email_events[probe'.arg].email_type \in
              {"application_confirmation", "application_rejection",
               "interview_invitation", "offer_letter"}
         /\ email_events[probe'.arg].confidence_score # NotANumber
         /\ email_events[probe'.arg].confidence_score >= 70
         /\ FGeq(cur'.match.score, Frac(8, 10))]_vars

\* C27: an application whose status is rejected or hired is never changed by
\* the email pipeline.  No call of _process_single_email changes a row of
\* job_applications that is rejected or hired.
C27_ClosedNeverMutated ==
  [][pc = "email"
      => \A a \in DOMAIN job_applications :
           job_applications[a].application_status \in {"rejected", "hired"}
             => job_applications'[a] = job_applications[a]]_vars

\* C28: when two runs process the same message id concurrently, at most one
\* EmailEvent with that id is ever committed, and at most one of the runs
\* mutates the application.
C28_OneEventOneMutation ==
  /\ \A m \in MsgIds :
       Cardinality({e \in DOMAIN email_events :
                      email_events[e].email_message_id = m}) <= 1
  /\ runs["task"].email = runs["manual"].email => \E p \in RunIds : runs[p].mutated = 0

\* both runs passed the duplicate check of the same message before either
\* committed; one of them committed the event and the mutation, the INSERT of
\* the other one failed
C28_Witness ==
  /\ \A p \in RunIds : runs[p].pc = "done"
  /\ runs["task"].email = runs["manual"].email
  /\ \E p \in RunIds, q \in RunIds :
       /\ runs[p].mutated # 0 /\ runs[p].processed
       /\ runs[q].exception /\ ~runs[q].processed
       /\ runs[q].classification.email_type = runs[p].classification.email_type
  /\ \E e \in DOMAIN email_events :
       email_events[e].email_message_id = runs["task"].email

\* C29: the counters agree with the database, also when runs of one user
\* overlap.  Once both runs have returned success, the emails they report as
\* processed are the EmailEvents that exist, the status updates they report
\* are the applications they mutated and no more than the emails processed, and
\* total_emails_processed has grown by the emails processed.
C29_CountersMatchDatabase ==
  (\A p \in RunIds : runs[p].pc = "done" /\ runs[p].success)
    => LET processed == {p \in RunIds : runs[p].processed}
           updated == {p \in RunIds : runs[p].status_updated}
           mutated == {p \in RunIds : runs[p].mutated # 0}
       IN  /\ Cardinality(processed) = Len(email_events)
           /\ updated = mutated
           /\ Cardinality(updated) <= Cardinality(processed)
           /\ connections["u1"].total_emails_processed = Cardinality(processed)

\* C30: an email without a job title can be matched but never updates a status
\* by itself: its match score is at most 0.4 + 0.2 + 0.03 = 0.63, which is
\* below the 0.8 of the automatic update.  No call of _process_single_email for
\* an email whose classification has no job title changes an application, and
\* the score of its match is at most 0.63.
C30_NoTitleNeverAutoUpdates ==
  [][(pc = "email" /\ cur'.classification.job_title = <<>>)
       => /\ job_applications' = job_applications
          /\ FGeq(Frac(63, 100), cur'.match.score)
          /\ ~cur'.status_updated]_vars

\* an interview invitation (confidence 0.75) without a job title was matched
\* to a listing with the score 0.63 and changed nothing
C30_Witness ==
  /\ pc = "mark"
  /\ cur.classification.job_title = <<>>
  /\ cur.classification.email_type = "interview_invitation"
  /\ cur.classification.confidence_score >= 70
  /\ cur.match.job_id # 0
  /\ cur.match.score = Frac(63, 100)
  /\ FGeq(cur.match.score, min_confidence_threshold)
  /\ ~cur.status_updated

=============================================================================
